---- MODULE Spec2Model ----
(***************************************************************************)
(* Container orchestration of the Minecraft artifact builder:              *)
(*   PodmanEnvironment (runBuilderInOwnContainer, abortRunningBuilders),   *)
(*   the app-mode scheduler of main.ts (SIGINT handler, build tasks,       *)
(*   worker pools) and the container engine they talk to.                  *)
(***************************************************************************)
EXTENDS Integers, Sequences, FiniteSets, TLC

\* ------------------------------------------------------------------ bounds
\* number of known versions each strategy reports (besides 'latest')
MaxVersions == 2
\* number of engine requests that may fail with an unexpected status
MaxFaults == 1
\* longest list of known versions handed to the loop that fills buildTasks
MaxListLen == 3
\* most frames in the body of a container log response
MaxFrames == 3
\* most lines of a container log handed to the log capture
MaxLogLines == 252
\* most versions to build of one kind when the pools of all kinds are studied
MaxKindJobs == 3
\* most items of --builderArg
MaxArgs == 2
\* most characters of one --builderArg item
MaxArgLen == 2
\* ids the engine has for containers when create and delete are studied
MaxEngineIds == 3
\* most argument maps handed to one bulk already-built check
MaxBulkArgs == 3
\* most turns of the log decoding loop that are followed
MaxDecodeTurns == 6
\* most bytes of a response body handed to the log decoding loop
MaxBodyLen == 12
\* versions to build of a kind beyond the size of its pool
PoolExtra == 1

\* --------------------------------------------------------- program constants
\* slice(-250) of the log lines
LogTailLines == 250
\* exit code of the graceful abort and of 'All done'
ExitGraceful == 0
\* exit code of the second SIGINT
ExitForced == 100
\* process.exit(1), and node's exit code for an uncaught exception
ExitFailure == 1
\* limit of the Async.parallelLimit call around the five papermc.io kinds
GroupLimit == 1

\* the pools of the app mode: kind and worker count
Kinds == {"spigotmc.org/spigot", "purpurmc.org/purpur"}

WorkerCount(k) == IF k = "spigotmc.org/spigot" THEN 1 ELSE 2

\* ----------------------------------------------------- strategy (external)
VersionNames == <<"2.0", "1.0", "1.5", "1.7", "1.8", "1.9">>

\* getKnownVersions(): 'latest' followed by the known version identifiers;
\* the spigot strategy knows one version, the purpur strategy MaxVersions
KnownVersions(k) ==
  <<"latest">> \o SubSeq(VersionNames, 1,
                         IF k = "spigotmc.org/spigot" THEN 1 ELSE MaxVersions)

\* artifactAlreadyInOutputDirBulk(): a tri-state per version
AlreadyBuiltPattern == <<"false", "true", "null">>

AlreadyBuiltBulk(k, versions) ==
  [i \in 1..Len(versions) |-> AlreadyBuiltPattern[((i - 1) % 3) + 1]]

\* ------------------------------------------------------------ JS helpers
\* Array.prototype.filter(version => version !== 'latest')
RECURSIVE FilterLatest(_)
FilterLatest(s) ==
  IF s = <<>> THEN <<>>
  ELSE IF Head(s) # "latest" THEN <<Head(s)>> \o FilterLatest(Tail(s))
       ELSE FilterLatest(Tail(s))

\* fault variant: the loop does not look at the bulk answer
BuildTasksFrom_All(versions, alreadyBuilt) == versions

\* fault variant: only entries that are === false are built
RECURSIVE BuildTasksFrom_OnlyFalse(_, _)
BuildTasksFrom_OnlyFalse(versions, alreadyBuilt) ==
  IF versions = <<>> THEN <<>>
  ELSE IF Head(alreadyBuilt) # "false"
       THEN BuildTasksFrom_OnlyFalse(Tail(versions), Tail(alreadyBuilt))
       ELSE <<Head(versions)>> \o BuildTasksFrom_OnlyFalse(Tail(versions), Tail(alreadyBuilt))

\* the for loop that fills buildTasks: entries that are === true are skipped
RECURSIVE BuildTasksFrom(_, _)
BuildTasksFrom(versions, alreadyBuilt) ==
  IF versions = <<>> THEN <<>>
  ELSE IF Head(alreadyBuilt) = "true"
       THEN BuildTasksFrom(Tail(versions), Tail(alreadyBuilt))
       ELSE <<Head(versions)>> \o BuildTasksFrom(Tail(versions), Tail(alreadyBuilt))

\* the same loop: ++numberOfAlreadyBuiltVersions for each entry that is === true
RECURSIVE NumberOfAlreadyBuiltVersions(_)
NumberOfAlreadyBuiltVersions(alreadyBuilt) ==
  IF alreadyBuilt = <<>> THEN 0
  ELSE (IF Head(alreadyBuilt) = "true" THEN 1 ELSE 0)
         + NumberOfAlreadyBuiltVersions(Tail(alreadyBuilt))

\* Array.prototype.indexOf (0-based, -1 when absent)
RECURSIVE IndexOfFrom(_, _, _)
IndexOfFrom(s, x, i) ==
  IF i > Len(s) THEN -1
  ELSE IF s[i] = x THEN i - 1 ELSE IndexOfFrom(s, x, i + 1)

IndexOf(s, x) == IndexOfFrom(s, x, 1)

\* Array.prototype.splice(start, 1): a negative start counts from the end
Splice1(s, start) ==
  LET from == IF start < 0 THEN (IF Len(s) + start < 0 THEN 0 ELSE Len(s) + start)
              ELSE (IF start > Len(s) THEN Len(s) ELSE start)
  IN [i \in 1..(IF from < Len(s) THEN Len(s) - 1 ELSE Len(s)) |->
        IF i <= from THEN s[i] ELSE s[i + 1]]

\* Array.prototype.slice(-n)
SliceLast(s, n) ==
  IF Len(s) <= n THEN s ELSE SubSeq(s, Len(s) - n + 1, Len(s))

\* --------------------------------------------------------------- values
\* a text is the sequence of its lines (text.split('\n')); '' is <<"">>
EmptyText == <<"">>

LogTexts == {EmptyText, <<"", "[stdout] a", "b">>}

ExitCodes == {0, 1}

NoError ==
  [type |-> "none", op |-> "", status |-> 0, code |-> 0, hasLogs |-> FALSE,
   logs |-> EmptyText]

\* new Error(`Unexpected http status '${statusCode}' ...: ${body}`)
HttpError(op, status) ==
  [type |-> "http", op |-> op, status |-> status, code |-> 0, hasLogs |-> FALSE,
   logs |-> EmptyText]

\* the engine's body for a missing container holds 'no such container'
IncludesNoSuchContainer(err) == err.type = "http" /\ err.status = 404

\* ---------------------------------------------------------------- state
VARIABLES
  mainPc,               \* position of the app-mode async main
  shuttingDown,         \* let shuttingDown
  sigints,              \* SIGINTs delivered so far
  exitCode,             \* process.exit code, -1 while the process is alive
  uncaught,             \* sources of errors that escaped every handler
  runningContainerIds,  \* PodmanEnvironment.runningContainerIds
  kindPc,               \* position of buildAllVersionsOfSomething per kind
  tasks,                \* per kind, the build tasks and their runBuild state
  containers,           \* engine: state of each container
  abortReqs,            \* deleteContainer requests issued by abortRunningBuilders
  abortState,           \* promise of abortRunningBuilders
  consoleErrors,        \* console.error calls: the set of sources that logged
  faults,               \* unexpected engine failures injected so far
  abortCalls,           \* invocations of PodmanEnvironment.abortRunningBuilders
  callIn,               \* a function under study: its arguments
  callOut,              \* a function under study: its locals and its outcome
  transport,            \* HttpUnixSocketClient: the requests of the call under study
  startup               \* completed calls of deleteStoppedContainers and buildImage

\* the function under study, untouched by the scheduler
call == <<callIn, callOut, transport>>

vars == <<mainPc, shuttingDown, sigints, exitCode, uncaught, runningContainerIds,
          kindPc, tasks, containers, abortReqs, abortState, consoleErrors, faults,
          abortCalls, callIn, callOut, transport, startup>>

\* the scheduler, untouched by the function under study
sched == <<mainPc, shuttingDown, sigints, exitCode, uncaught, runningContainerIds,
           kindPc, tasks, containers, abortReqs, abortState, consoleErrors, faults,
           abortCalls, startup>>

NoCall == [op |-> "none"]

\* no Http.request has been made
NoTransport == [requests |-> 0, state |-> "idle"]

MaxTasks == MaxVersions

\* the id the engine assigns to the container of task i of kind k
ContainerId(k, i) == <<k, i>>

ContainerIds == {ContainerId(k, i) : k \in Kinds, i \in 1..MaxTasks}

\* the process has not exited (exitCode is -1 until process.exit or a crash)
Alive == exitCode < 0

\* a build task and the locals of its runBuilderInOwnContainer call; exit is -1
\* until waitOnContainer has returned, delStatus 0 until the delete has answered,
\* runs counts the calls of runBuilderInOwnContainer made by the task
NewTask(version) ==
  [version |-> version, pc |-> "idle", exit |-> -1, fetched |-> "none",
   fetchedText |-> EmptyText, containerLogs |-> EmptyText, delReqs |-> <<>>,
   delStatus |-> 0,
   logErrLogged |-> FALSE, result |-> NoError, caught |-> FALSE,
   created |-> FALSE, afterFlag |-> FALSE, runs |-> 0]

\* the scheduler before its first step
SchedInit ==
  /\ mainPc = "prune"
  /\ shuttingDown = FALSE
  /\ sigints = 0
  /\ exitCode = -1
  /\ uncaught = {}
  /\ runningContainerIds = <<>>
  /\ kindPc = [k \in Kinds |-> "idle"]
  /\ tasks = [k \in Kinds |-> <<>>]
  /\ containers = [c \in ContainerIds |-> "none"]
  /\ abortReqs = <<>>
  /\ abortState = "none"
  /\ consoleErrors = {}
  /\ faults = 0
  /\ abortCalls = 0
  /\ startup = [prune |-> 0, buildImage |-> 0]

Init ==
  /\ SchedInit
  /\ callIn = NoCall
  /\ callOut = NoCall
  /\ transport = NoTransport

\* ------------------------------------------------------------- the engine
\* POST /containers/{id}/start
EngineStart(cstate) ==
  IF cstate = "created" THEN [status |-> 204, state |-> "running"]
  ELSE IF cstate \in {"none", "removed"} THEN [status |-> 404, state |-> cstate]
  ELSE [status |-> 304, state |-> cstate]

\* DELETE /containers/{id}?force=&ignore=
EngineDelete(cstate, force, ignore) ==
  IF cstate \in {"none", "removed"}
  THEN [status |-> IF ignore THEN 200 ELSE 404, state |-> cstate]
  ELSE IF cstate = "running" /\ ~force THEN [status |-> 409, state |-> cstate]
  ELSE [status |-> 200, state |-> "removed"]

\* an unexpected failure of the engine or of the transport
Faulty(fault, status) == IF fault THEN 500 ELSE status

CanFault(fault) == fault => faults < MaxFaults

CountFault(fault) == faults' = IF fault THEN faults + 1 ELSE faults

\* ------------------------------------------- PodmanEnvironment, piecewise
\* fault variant: the id is not recorded before the start
RecordContainer_NoPush(ids, id) == ids

\* this.runningContainerIds.push(containerId)
RecordContainer(ids, id) == Append(ids, id)

\* deleteContainer(containerId, false, true) after a non-zero exit
FailedDeleteFlags == [force |-> FALSE, ignore |-> TRUE]

\* deleteContainer(containerId) after exit code 0
NormalDeleteFlags == [force |-> FALSE, ignore |-> FALSE]

\* fault variant: the abort deletes do not ignore missing containers
AbortDeleteFlags_NoIgnore == [force |-> TRUE, ignore |-> FALSE]

\* deleteContainer(containerId, true, true) of abortRunningBuilders
AbortDeleteFlags == [force |-> TRUE, ignore |-> TRUE]

\* fault variant: the first lines are kept instead of the last
LogTail_Head(text) == SubSeq(text, 1, IF Len(text) <= LogTailLines THEN Len(text) ELSE LogTailLines)

\* fault variant: the logs are fetched after every build
FetchesLogs_Always(code) == TRUE

\* if (exitCode !== 0): the logs are fetched only after a failed build
FetchesLogs(code) == code # 0

\* containerLogs.split('\n').slice(-250).join('\n')
LogTail(text) == SliceLast(text, LogTailLines)

\* fault variant: the log tail is left out of the message
ExitError_NoLogs(code, containerLogs) ==
  [type |-> "exit", op |-> "runBuild", status |-> 0, code |-> code,
   hasLogs |-> FALSE, logs |-> EmptyText]

\* new Error(`Container exited with exit code ${exitCode}${containerLogs ? ': ' + containerLogs : ''}`)
ExitError(code, containerLogs) ==
  [type |-> "exit", op |-> "runBuild", status |-> 0, code |-> code,
   hasLogs |-> containerLogs # EmptyText,
   logs |-> IF containerLogs # EmptyText THEN containerLogs ELSE EmptyText]

\* fault variant: the last entry is removed, as splice(-1, 1) would
RemoveContainerId_Pop(ids, id) == SubSeq(ids, 1, Len(ids) - 1)

\* fault variant: the id is never removed
RemoveContainerId_Keep(ids, id) == ids

\* this.runningContainerIds.splice(this.runningContainerIds.indexOf(containerId), 1)
RemoveContainerId(ids, id) == Splice1(ids, IndexOf(ids, id))

\* fault variant: the catch reports every error of the log fetch
LogsErrorIsLogged_Always(err) == TRUE

\* the catch of the log fetch: console.error unless 'no such container'
LogsErrorIsLogged(err) == ~IncludesNoSuchContainer(err)

\* ------------------------------------------------------ scheduler, piecewise
\* fault variant: the pools are started without awaiting the startup calls
PoolsMayStart_Anytime(pc) == TRUE

\* Promise.all of line 110 comes after the awaits of lines 103 and 108
PoolsMayStart(pc) == pc = "pools"

\* fault variant: the task does not test the flag
BuildTaskEntry_NoCheck(flag) == "creating"

\* if (shuttingDown) { return; } at the head of a build task
BuildTaskEntry(flag) == IF flag THEN "skipped" ELSE "creating"

\* fault variant: the task lets the error of runBuild through
BuildTaskCatches_Rethrows == FALSE

\* try { await runBuilderInOwnContainer(...) } catch (err) { console.error(...) }
BuildTaskCatches == TRUE

\* fault variant: the interrupt handler has no catch
AbortCatches_Missing == FALSE

\* abortRunningBuilders().catch((error) => console.error(...))
AbortCatches == TRUE

\* await Promise.all(promises): rejects on the first rejection, resolves when
\* every promise has resolved
PromiseAll(outcomes) ==
  IF \E n \in 1..Len(outcomes) : outcomes[n] = "failed" THEN "rejected"
  ELSE IF \E n \in 1..Len(outcomes) : outcomes[n] = "pending" THEN "pending"
  ELSE "resolved"

\* fault variant: the pool does not count the tasks it has started
InFlight_Uncounted(k) == 0

\* the tasks that hold a worker slot of the pool of kind k
InFlight(k) ==
  Cardinality({i \in 1..Len(tasks[k]) :
                 tasks[k][i].pc \notin {"idle", "skipped", "finished"}})

\* runBuilderInOwnContainer throws e inside build task i of kind k
TaskThrows(k, i, t, e) ==
  /\ tasks' = [tasks EXCEPT ![k][i] =
                 [t EXCEPT !.pc = "done", !.result = e, !.caught = BuildTaskCatches]]
  /\ uncaught' = IF BuildTaskCatches THEN uncaught ELSE uncaught \cup {"runBuild"}
  /\ exitCode' = IF BuildTaskCatches THEN exitCode ELSE 1

\* ------------------------------------------------------------ app-mode main
Prune ==
  /\ Alive /\ mainPc = "prune"
  /\ mainPc' = "buildImage"
  /\ startup' = [startup EXCEPT !.prune = @ + 1]
  /\ UNCHANGED <<call, abortCalls,
                 shuttingDown, sigints, exitCode, uncaught, runningContainerIds,
                 kindPc, tasks, containers, abortReqs, abortState, consoleErrors, faults>>

BuildImage ==
  /\ Alive /\ mainPc = "buildImage"
  /\ mainPc' = "pools"
  /\ startup' = [startup EXCEPT !.buildImage = @ + 1]
  /\ UNCHANGED <<call, abortCalls,
                 shuttingDown, sigints, exitCode, uncaught, runningContainerIds,
                 kindPc, tasks, containers, abortReqs, abortState, consoleErrors, faults>>

\* deleteStoppedContainers or buildImage throws: the async main rejects unhandled
StartupFails ==
  /\ Alive /\ mainPc \in {"prune", "buildImage"}
  /\ faults < MaxFaults
  /\ faults' = faults + 1
  /\ uncaught' = uncaught \cup {"main"}
  /\ exitCode' = 1
  /\ UNCHANGED <<call, startup, abortCalls,
                 mainPc, shuttingDown, sigints, runningContainerIds, kindPc, tasks,
                 containers, abortReqs, abortState, consoleErrors>>

\* buildAllVersionsOfSomething up to the call of Async.parallelLimit
KindPrepare(k) ==
  /\ Alive /\ PoolsMayStart(mainPc) /\ kindPc[k] = "idle"
  /\ LET versions == FilterLatest(KnownVersions(k))
         buildTasks == BuildTasksFrom(versions, AlreadyBuiltBulk(k, versions))
     IN tasks' = [tasks EXCEPT ![k] = [i \in 1..Len(buildTasks) |-> NewTask(buildTasks[i])]]
  /\ kindPc' = [kindPc EXCEPT ![k] = "running"]
  /\ UNCHANGED <<call, startup, abortCalls,
                 mainPc, shuttingDown, sigints, exitCode, uncaught, runningContainerIds,
                 containers, abortReqs, abortState, consoleErrors, faults>>

\* getKnownVersions or the bulk check of the strategy throws: the rejection of
\* buildAllVersionsOfSomething reaches the async main, which rejects unhandled
KindPrepareFails(k) ==
  /\ Alive /\ PoolsMayStart(mainPc) /\ kindPc[k] = "idle"
  /\ faults < MaxFaults
  /\ faults' = faults + 1
  /\ kindPc' = [kindPc EXCEPT ![k] = "failed"]
  /\ uncaught' = uncaught \cup {"main"}
  /\ exitCode' = 1
  /\ UNCHANGED <<call, startup, abortCalls,
                 mainPc, shuttingDown, sigints, runningContainerIds, tasks, containers,
                 abortReqs, abortState, consoleErrors>>

\* every pool has drained: console.log('All done'); process.exit(0)
AllDone ==
  /\ Alive /\ mainPc = "pools"
  /\ \A k \in Kinds :
       /\ kindPc[k] = "running"
       /\ \A i \in 1..Len(tasks[k]) : tasks[k][i].pc \in {"finished", "skipped"}
  /\ mainPc' = "allDone"
  /\ exitCode' = ExitGraceful
  /\ UNCHANGED <<call, startup, abortCalls,
                 shuttingDown, sigints, uncaught, runningContainerIds, kindPc, tasks,
                 containers, abortReqs, abortState, consoleErrors, faults>>

\* ------------------------------------------------------------- build task
\* the pool admits task i: the flag check, then createContainer is requested
TaskStart(k, i) ==
  /\ Alive /\ kindPc[k] = "running"
  /\ i \in 1..Len(tasks[k])
  /\ tasks[k][i].pc = "idle"
  /\ \A j \in 1..(i - 1) : tasks[k][j].pc # "idle"
  /\ InFlight(k) < WorkerCount(k)
  /\ tasks' = [tasks EXCEPT ![k][i] =
                 [@ EXCEPT !.pc = BuildTaskEntry(shuttingDown), !.afterFlag = shuttingDown,
                           !.runs = IF BuildTaskEntry(shuttingDown) = "creating"
                                    THEN @ + 1 ELSE @]]
  /\ UNCHANGED <<call, startup, abortCalls,
                 mainPc, shuttingDown, sigints, exitCode, uncaught, runningContainerIds,
                 kindPc, containers, abortReqs, abortState, consoleErrors, faults>>

\* the task's promise has settled: a caught error has been logged by
\* console.error, the pool takes the slot back and the locals of the task are gone
TaskFinish(k, i) ==
  /\ Alive /\ i \in 1..Len(tasks[k]) /\ tasks[k][i].pc = "done"
  /\ tasks' = [tasks EXCEPT ![k][i] =
                 [NewTask(tasks[k][i].version) EXCEPT !.pc = "finished",
                                                       !.runs = tasks[k][i].runs]]
  /\ consoleErrors' = IF tasks[k][i].caught
                      THEN consoleErrors \cup {"build"} ELSE consoleErrors
  /\ UNCHANGED <<call, startup, abortCalls,
                 mainPc, shuttingDown, sigints, exitCode, uncaught, runningContainerIds,
                 kindPc, containers, abortReqs, abortState, faults>>

\* the engine serves POST /containers/create
EngineCreate(k, i) ==
  /\ Alive /\ i \in 1..Len(tasks[k]) /\ tasks[k][i].pc = "creating"
  /\ \E fault \in BOOLEAN :
       /\ CanFault(fault) /\ CountFault(fault)
       /\ IF fault
          THEN /\ TaskThrows(k, i, tasks[k][i], HttpError("create", 500))
               /\ UNCHANGED containers
          ELSE /\ containers' = [containers EXCEPT ![ContainerId(k, i)] = "created"]
               /\ tasks' = [tasks EXCEPT ![k][i].pc = "created"]
               /\ UNCHANGED <<call, startup, abortCalls, uncaught, exitCode>>
  /\ UNCHANGED <<call, startup, abortCalls,
                 mainPc, shuttingDown, sigints, runningContainerIds, kindPc, abortReqs,
                 abortState, consoleErrors>>

\* createContainer returns the id: push it, request the start
CreateReturns(k, i) ==
  /\ Alive /\ i \in 1..Len(tasks[k]) /\ tasks[k][i].pc = "created"
  /\ runningContainerIds' = RecordContainer(runningContainerIds, ContainerId(k, i))
  /\ tasks' = [tasks EXCEPT ![k][i] = [@ EXCEPT !.pc = "starting", !.created = TRUE]]
  /\ UNCHANGED <<call, startup, abortCalls,
                 mainPc, shuttingDown, sigints, exitCode, uncaught, kindPc, containers,
                 abortReqs, abortState, consoleErrors, faults>>

\* startContainer answers: 204 requests the wait, anything else throws
StartResponse(k, i) ==
  /\ Alive /\ i \in 1..Len(tasks[k]) /\ tasks[k][i].pc = "starting"
  /\ \E fault \in BOOLEAN :
       LET id == ContainerId(k, i)
           r == EngineStart(containers[id])
           status == Faulty(fault, r.status)
       IN /\ CanFault(fault) /\ CountFault(fault)
          /\ IF status = 204
             THEN /\ containers' = [containers EXCEPT ![id] = r.state]
                  /\ tasks' = [tasks EXCEPT ![k][i].pc = "waiting"]
                  /\ UNCHANGED <<call, startup, abortCalls, uncaught, exitCode>>
             ELSE /\ TaskThrows(k, i, tasks[k][i], HttpError("start", status))
                  /\ UNCHANGED containers
  /\ UNCHANGED <<call, startup, abortCalls,
                 mainPc, shuttingDown, sigints, runningContainerIds, kindPc, abortReqs,
                 abortState, consoleErrors>>

\* waitOnContainer answers with the exit code: 0 requests the normal delete,
\* anything else requests the logs
WaitResponse(k, i) ==
  /\ Alive /\ i \in 1..Len(tasks[k]) /\ tasks[k][i].pc = "waiting"
  /\ \E fault \in BOOLEAN, gone \in BOOLEAN, c \in ExitCodes :
       LET id == ContainerId(k, i)
           present == containers[id] = "running"
           status == Faulty(fault, IF ~present /\ gone THEN 404 ELSE 200)
       IN /\ CanFault(fault) /\ CountFault(fault)
          /\ present => ~gone
          /\ IF status = 200
             THEN /\ containers' = [containers EXCEPT ![id] =
                                      IF present THEN "exited" ELSE @]
                  /\ tasks' = [tasks EXCEPT ![k][i] =
                       IF FetchesLogs(c)
                       THEN [@ EXCEPT !.pc = "logs", !.exit = c]
                       ELSE [@ EXCEPT !.pc = "deleting", !.exit = c,
                                      !.delReqs = Append(@, NormalDeleteFlags)]]
                  /\ UNCHANGED <<call, startup, abortCalls, uncaught, exitCode>>
             ELSE /\ TaskThrows(k, i, tasks[k][i], HttpError("wait", status))
                  /\ UNCHANGED containers
  /\ UNCHANGED <<call, startup, abortCalls,
                 mainPc, shuttingDown, sigints, runningContainerIds, kindPc, abortReqs,
                 abortState, consoleErrors>>

\* getContainerLogs answers: keep the tail or swallow the error, then request
\* the delete of the failed container
LogsResponse(k, i) ==
  /\ Alive /\ i \in 1..Len(tasks[k]) /\ tasks[k][i].pc = "logs"
  /\ \E fault \in BOOLEAN, text \in LogTexts :
       LET id == ContainerId(k, i)
           present == containers[id] \notin {"none", "removed"}
           status == Faulty(fault, IF present THEN 200 ELSE 404)
           err == HttpError("logs", status)
       IN /\ CanFault(fault) /\ CountFault(fault)
          /\ tasks' = [tasks EXCEPT ![k][i] =
               IF status = 200
               THEN [@ EXCEPT !.pc = "deletingFailed", !.fetched = "ok",
                              !.fetchedText = text,
                              !.containerLogs = LogTail(text),
                              !.delReqs = Append(@, FailedDeleteFlags)]
               ELSE [@ EXCEPT !.pc = "deletingFailed",
                              !.fetched = IF IncludesNoSuchContainer(err) THEN "gone" ELSE "failed",
                              !.logErrLogged = LogsErrorIsLogged(err),
                              !.delReqs = Append(@, FailedDeleteFlags)]]
  /\ UNCHANGED <<call, startup, abortCalls,
                 mainPc, shuttingDown, sigints, exitCode, uncaught, runningContainerIds,
                 kindPc, containers, abortReqs, abortState, consoleErrors>>

\* deleteContainer of the job answers: after exit code 0 the id leaves the
\* running set and runBuild returns; after a failed build the exit error is thrown
DeleteResponse(k, i) ==
  /\ Alive /\ i \in 1..Len(tasks[k]) /\ tasks[k][i].pc \in {"deleting", "deletingFailed"}
  /\ \E fault \in BOOLEAN :
       LET id == ContainerId(k, i)
           t == tasks[k][i]
           flags == t.delReqs[Len(t.delReqs)]
           r == EngineDelete(containers[id], flags.force, flags.ignore)
           status == Faulty(fault, r.status)
           t2 == [t EXCEPT !.delStatus = status]
       IN /\ CanFault(fault) /\ CountFault(fault)
          /\ containers' = [containers EXCEPT ![id] = IF status = 200 THEN r.state ELSE @]
          /\ IF status # 200
             THEN /\ TaskThrows(k, i, t2, HttpError("delete", status))
                  /\ UNCHANGED runningContainerIds
             ELSE IF t.pc = "deletingFailed"
             THEN /\ TaskThrows(k, i, t2, ExitError(t.exit, t.containerLogs))
                  /\ UNCHANGED runningContainerIds
             ELSE /\ runningContainerIds' = RemoveContainerId(runningContainerIds, id)
                  /\ tasks' = [tasks EXCEPT ![k][i] = [t2 EXCEPT !.pc = "done"]]
                  /\ UNCHANGED <<call, startup, abortCalls, uncaught, exitCode>>
  /\ UNCHANGED <<call, startup, abortCalls, mainPc, shuttingDown, sigints, kindPc, abortReqs, abortState,
                 consoleErrors>>

\* -------------------------------------------------------------- SIGINT
\* the abortRunningBuilders promise settles: catch logs, finally exits
AbortSettles(reqs) ==
  LET state == PromiseAll([n \in 1..Len(reqs) |-> reqs[n].outcome])
      escapes == state = "rejected" /\ ~AbortCatches
  IN /\ abortState' = state
     /\ consoleErrors' = IF state = "rejected" /\ AbortCatches
                         THEN consoleErrors \cup {"abort"} ELSE consoleErrors
     /\ uncaught' = IF escapes THEN uncaught \cup {"abortAll"} ELSE uncaught
     /\ exitCode' = IF state = "pending" THEN exitCode
                    ELSE IF escapes THEN 1 ELSE ExitGraceful

\* first SIGINT: set the flag, request a forced delete of every recorded id
Sigint ==
  /\ Alive /\ sigints = 0
  /\ sigints' = 1
  /\ shuttingDown' = TRUE
  /\ abortReqs' = [n \in 1..Len(runningContainerIds) |->
                     [id |-> runningContainerIds[n], force |-> AbortDeleteFlags.force,
                      ignore |-> AbortDeleteFlags.ignore, outcome |-> "pending",
                      status |-> 0]]
  /\ abortCalls' = abortCalls + 1
  /\ AbortSettles(abortReqs')
  /\ UNCHANGED <<call, startup, mainPc, runningContainerIds, kindPc, tasks, containers, faults>>

\* fault variant: the first handler is registered with process.on and runs
\* again on the second SIGINT
SecondSigint_AbortsAgain ==
  /\ Alive /\ sigints = 1
  /\ sigints' = 2
  /\ abortCalls' = abortCalls + 1
  /\ exitCode' = ExitForced
  /\ UNCHANGED <<call, startup, mainPc, shuttingDown, uncaught, runningContainerIds, kindPc, tasks,
                 containers, abortReqs, abortState, consoleErrors, faults>>

\* fault variant: the second SIGINT exits only once no delete is outstanding
SecondSigint_WaitsForDeletes ==
  /\ Alive /\ sigints = 1
  /\ \A n \in 1..Len(abortReqs) : abortReqs[n].outcome # "pending"
  /\ sigints' = 2
  /\ exitCode' = ExitForced
  /\ UNCHANGED <<call, startup, abortCalls, mainPc, shuttingDown, uncaught, runningContainerIds,
                 kindPc, tasks, containers, abortReqs, abortState, consoleErrors, faults>>

\* second SIGINT: the handler registered by the first one calls
\* process.exit(100); the first handler, registered with process.once, is gone
SecondSigint ==
  /\ Alive /\ sigints = 1
  /\ sigints' = 2
  /\ exitCode' = ExitForced
  /\ UNCHANGED <<call, startup, abortCalls,
                 mainPc, shuttingDown, uncaught, runningContainerIds, kindPc, tasks,
                 containers, abortReqs, abortState, consoleErrors, faults>>

\* one deleteContainer of abortRunningBuilders answers
AbortDeleteResponse(n) ==
  /\ Alive /\ n \in 1..Len(abortReqs) /\ abortReqs[n].outcome = "pending"
  /\ \E fault \in BOOLEAN :
       LET req == abortReqs[n]
           r == EngineDelete(containers[req.id], req.force, req.ignore)
           status == Faulty(fault, r.status)
           missing == containers[req.id] \in {"none", "removed"}
       IN /\ CanFault(fault) /\ CountFault(fault)
          /\ containers' = [containers EXCEPT ![req.id] = IF status = 200 THEN r.state ELSE @]
          /\ abortReqs' = [abortReqs EXCEPT ![n] =
                             [@ EXCEPT !.status = status,
                                       !.outcome = IF status # 200 THEN "failed"
                                                   ELSE IF missing THEN "missing"
                                                   ELSE "deleted"]]
          /\ AbortSettles(abortReqs')
  /\ UNCHANGED <<call, startup, abortCalls,
                 mainPc, shuttingDown, sigints, runningContainerIds, kindPc, tasks>>

Next ==
  \/ Prune
  \/ BuildImage
  \/ StartupFails
  \/ \E k \in Kinds : KindPrepare(k)
  \/ \E k \in Kinds : KindPrepareFails(k)
  \/ AllDone
  \/ \E k \in Kinds, i \in 1..MaxTasks : TaskStart(k, i)
  \/ \E k \in Kinds, i \in 1..MaxTasks : TaskFinish(k, i)
  \/ \E k \in Kinds, i \in 1..MaxTasks : EngineCreate(k, i)
  \/ \E k \in Kinds, i \in 1..MaxTasks : CreateReturns(k, i)
  \/ \E k \in Kinds, i \in 1..MaxTasks : StartResponse(k, i)
  \/ \E k \in Kinds, i \in 1..MaxTasks : WaitResponse(k, i)
  \/ \E k \in Kinds, i \in 1..MaxTasks : LogsResponse(k, i)
  \/ \E k \in Kinds, i \in 1..MaxTasks : DeleteResponse(k, i)
  \/ Sigint
  \/ SecondSigint
  \/ \E n \in 1..Len(abortReqs) : AbortDeleteResponse(n)

Spec == Init /\ [][Next]_vars

\* ------------------------------------------------------- the pools under load
\* The state when every buildAllVersionsOfSomething has reached its
\* Async.parallelLimit call, for two loads: the size-1 pool has PoolExtra jobs
\* more than workers while the size-2 pool has one job, or the size-2 pool has
\* PoolExtra jobs more than workers while the size-1 pool has none. The engine
\* answers every request as documented; jobs fail by their exit code.
PoolMaxTasks == 2 + PoolExtra

PoolContainerIds == {ContainerId(k, i) : k \in Kinds, i \in 1..PoolMaxTasks}

PoolLoad(busy) ==
  [k \in Kinds |->
     [i \in 1..(IF k = busy THEN WorkerCount(k) + PoolExtra ELSE WorkerCount(k) - 1) |->
        NewTask(VersionNames[i])]]

PoolInit ==
  /\ mainPc = "pools"
  /\ shuttingDown = FALSE
  /\ sigints = 0
  /\ exitCode = -1
  /\ uncaught = {}
  /\ runningContainerIds = <<>>
  /\ kindPc = [k \in Kinds |-> "running"]
  /\ \E busy \in Kinds : tasks = PoolLoad(busy)
  /\ containers = [c \in PoolContainerIds |-> "none"]
  /\ abortReqs = <<>>
  /\ abortState = "none"
  /\ consoleErrors = {}
  /\ faults = MaxFaults
  /\ abortCalls = 0
  /\ startup = [prune |-> 1, buildImage |-> 1]
  /\ callIn = NoCall
  /\ callOut = NoCall
  /\ transport = NoTransport

PoolNext ==
  \/ AllDone
  \/ \E k \in Kinds, i \in 1..PoolMaxTasks : TaskStart(k, i)
  \/ \E k \in Kinds, i \in 1..PoolMaxTasks : TaskFinish(k, i)
  \/ \E k \in Kinds, i \in 1..PoolMaxTasks : EngineCreate(k, i)
  \/ \E k \in Kinds, i \in 1..PoolMaxTasks : CreateReturns(k, i)
  \/ \E k \in Kinds, i \in 1..PoolMaxTasks : StartResponse(k, i)
  \/ \E k \in Kinds, i \in 1..PoolMaxTasks : WaitResponse(k, i)
  \/ \E k \in Kinds, i \in 1..PoolMaxTasks : LogsResponse(k, i)
  \/ \E k \in Kinds, i \in 1..PoolMaxTasks : DeleteResponse(k, i)
  \/ Sigint
  \/ SecondSigint
  \/ \E n \in 1..Len(abortReqs) : AbortDeleteResponse(n)

PoolSpec == PoolInit /\ [][PoolNext]_vars

\* ------------------------------------- buildAllVersionsOfSomething, lines 68-96
ReportedVersions == {"latest", "2.0", "1.0", "1.5"}

TriStates == {"true", "false", "null"}

SeqsUpTo(S, n) == UNION {[1..m -> S] : m \in 0..n}

\* getKnownVersions() returns known; the bulk check answers for the versions
\* left by the filter of line 68, one tri-state per version
PrepareInit ==
  /\ SchedInit
  /\ \E known \in SeqsUpTo(ReportedVersions, MaxListLen) :
       \E alreadyBuilt \in [1..Len(FilterLatest(known)) -> TriStates] :
         callIn = [op |-> "prepare", known |-> known, alreadyBuilt |-> alreadyBuilt]
  /\ callOut = NoCall
  /\ transport = NoTransport

\* lines 68-96: filter, fill buildTasks, count the versions already built
PrepareRuns ==
  /\ callIn.op = "prepare" /\ callOut = NoCall
  /\ LET versions == FilterLatest(callIn.known)
     IN callOut' = [op |-> "prepare",
                    buildTasks |-> BuildTasksFrom(versions, callIn.alreadyBuilt),
                    skipped |-> NumberOfAlreadyBuiltVersions(callIn.alreadyBuilt)]
  /\ UNCHANGED <<callIn, transport, sched>>

PrepareNext == PrepareRuns

PrepareSpec == PrepareInit /\ [][PrepareNext]_vars

\* ------------------------------------------------------- PodmanApi, lines 126-280
ApiOps ==
  {"listContainers", "deleteContainer", "createContainer", "startContainer",
   "waitOnContainer", "deleteStoppedContainers", "getContainerLogs", "pullImage",
   "buildImage", "ping"}

\* fault variant: every operation tests for 200
ExpectedStatus_Always200(op) == 200

\* the status each operation compares response.statusCode with
ExpectedStatus(op) ==
  IF op = "createContainer" THEN 201
  ELSE IF op = "startContainer" THEN 204
  ELSE 200

\* what the operation makes of a body once the status is the expected one:
\* JSON.parse and the type test on the parsed value, parseInt, or nothing
ParseBody(op, body) ==
  IF op \in {"startContainer", "ping", "waitOnContainer"} THEN "returned"
  ELSE IF op \in {"listContainers", "deleteContainer", "deleteStoppedContainers"}
       THEN (IF body = "array" THEN "returned" ELSE "thrown")
  ELSE (IF body = "object" THEN "returned" ELSE "thrown")

\* the error of an operation whose body does not parse: JSON.parse throws its
\* own SyntaxError on a body that is not JSON, the type test throws otherwise
ParseError(op, body) == IF body = "text" THEN "syntax" ELSE "body"

\* whether the message of the Error holds response.body.toString(): the status
\* errors of buildImage and ping, the content-type and stream-type errors of
\* getContainerLogs and the SyntaxError of JSON.parse are built without it
MessageHasBody(op, error) ==
  IF error = "status" THEN op \notin {"buildImage", "ping"}
  ELSE error = "body"

\* fault variant: the declared content type is not tested
ContentTypeAccepted_Any(contentType) == TRUE

\* the test of response.headers['content-type']; an absent header is undefined
ContentTypeAccepted(contentType) ==
  ~(contentType # "undefined" /\ contentType # "application/octet-stream")

\* '\n[stdout] ' and '\n[stderr] ' as code units
StdoutMarker == <<10, 91, 115, 116, 100, 111, 117, 116, 93, 32>>

StderrMarker == <<10, 91, 115, 116, 100, 101, 114, 114, 93, 32>>

\* fault variant: a marker is written before every frame
NeedsMarker_EveryFrame(streamType, lastAppendedStreamType) == TRUE

\* if (streamType !== lastAppendedStreamType)
NeedsMarker(streamType, lastAppendedStreamType) == streamType # lastAppendedStreamType

\* fault variant: a frame of another stream is appended under the stderr marker
KnownStreamType_Any(streamType) == TRUE

\* the frame reaches the else branch that throws unless its type is 1 or 2
KnownStreamType(streamType) == streamType \in {1, 2}

\* the marker written for a stream type
Marker(streamType) == IF streamType = 1 THEN StdoutMarker ELSE StderrMarker

\* Buffer.subarray(start, end): negative indices count from the end, indices
\* are clamped to the buffer, an end before the start gives an empty view
ClampIndex(len, x) ==
  IF x < 0 THEN (IF len + x < 0 THEN 0 ELSE len + x)
  ELSE IF x > len THEN len ELSE x

Subarray(buf, start, end) ==
  LET from == ClampIndex(Len(buf), start)
      to == ClampIndex(Len(buf), end)
  IN IF to <= from THEN <<>> ELSE SubSeq(buf, from + 1, to)

\* headerBytes[i] inside a shift: a missing byte is undefined, which shifts as 0
ByteOrZero(buf, i) == IF i < Len(buf) THEN buf[i + 1] ELSE 0

\* headerBytes[4] << 24 | headerBytes[5] << 16 | headerBytes[6] << 8 | headerBytes[7]
\* as the signed 32-bit integer the bit operators of JS produce
FrameSize(headerBytes) ==
  LET high == ByteOrZero(headerBytes, 4)
  IN (IF high >= 128 THEN high - 256 ELSE high) * 16777216
       + ByteOrZero(headerBytes, 5) * 65536
       + ByteOrZero(headerBytes, 6) * 256 + ByteOrZero(headerBytes, 7)

\* 8 + frameSize as an index into a buffer of len bytes: subarray clamps an
\* index beyond the buffer to len
FrameEnd(len, frameSize) == IF frameSize > len THEN len ELSE 8 + frameSize

\* Buffer.toString(): UTF-8 decoding, one code unit per byte below 128 and the
\* replacement character for a byte that starts no valid sequence
BufferToString(bytes) == [i \in 1..Len(bytes) |-> IF bytes[i] < 128 THEN bytes[i] ELSE 65533]

\* the engine side: a frame is its 8-byte header followed by its payload
EncodeFrame(frame) ==
  LET n == Len(frame.payload)
  IN <<frame.type, 0, 0, 0, (n \div 16777216) % 256, (n \div 65536) % 256,
       (n \div 256) % 256, n % 256>> \o frame.payload

RECURSIVE EncodeFrames(_)
EncodeFrames(frames) ==
  IF frames = <<>> THEN <<>> ELSE EncodeFrame(Head(frames)) \o EncodeFrames(Tail(frames))

Statuses == {200, 201, 204, 404, 500}

\* socket missing, refused, reset
TransportErrors == {"ENOENT", "ECONNREFUSED", "ECONNRESET"}

\* fault variant: a failed request is made a second time
RetryOnTransportError_Once == TRUE

\* .on('error', (error) => reject(error)): no request is made again
RetryOnTransportError == FALSE

BodyKinds == {"array", "object", "text"}

ContentTypes == {"undefined", "application/octet-stream", "text/plain"}

\* 'abcde', 'xyz', 'hi' and the empty payload
Payloads == {<<97, 98, 99, 100, 101>>, <<120, 121, 122>>, <<104, 105>>, <<>>}

StreamTypes == {1, 2, 3}

Frames == [type : StreamTypes, payload : Payloads]

\* one call of one operation, and the response the engine gives to it
ApiInit ==
  /\ SchedInit
  /\ callOut = NoCall
  /\ transport = NoTransport
  /\ \E op \in ApiOps, status \in Statuses :
       IF op = "getContainerLogs"
       THEN \E contentType \in ContentTypes, frames \in SeqsUpTo(Frames, MaxFrames) :
              callIn = [op |-> op, status |-> status, contentType |-> contentType,
                        frames |-> frames]
       ELSE \E body \in BodyKinds :
              callIn = [op |-> op, status |-> status, body |-> body]

\* the operation calls get, post or delete of the client once, which makes
\* one Http.request
HttpRequest ==
  /\ callIn.op \in ApiOps /\ callOut = NoCall /\ transport.state = "idle"
  /\ transport' = [requests |-> transport.requests + 1, state |-> "pending"]
  /\ UNCHANGED <<callIn, callOut, sched>>

\* the request or the response emits 'error': the promise of the client
\* rejects, the await of the operation throws that error
TransportError ==
  /\ callIn.op \in ApiOps /\ callOut = NoCall /\ transport.state = "pending"
  /\ \E code \in TransportErrors :
       IF RetryOnTransportError /\ transport.requests < 2
       THEN /\ transport' = [transport EXCEPT !.state = "idle"]
            /\ UNCHANGED callOut
       ELSE /\ transport' = [transport EXCEPT !.state = "failed"]
            /\ callOut' = [pc |-> "thrown", error |-> "transport", code |-> code,
                           messageHasBody |-> FALSE]
  /\ UNCHANGED <<callIn, sched>>

\* the response arrives: the status test, then the parsing of the body; of
\* getContainerLogs, the tests of lines 207-212 and the locals of lines 214-216
ApiResponds ==
  /\ callIn.op \in ApiOps /\ callOut = NoCall /\ transport.state = "pending"
  /\ transport' = [transport EXCEPT !.state = "responded"]
  /\ callOut' =
       IF callIn.status # ExpectedStatus(callIn.op)
       THEN [pc |-> "thrown", error |-> "status",
             messageHasBody |-> MessageHasBody(callIn.op, "status")]
       ELSE IF callIn.op # "getContainerLogs"
       THEN (IF ParseBody(callIn.op, callIn.body) = "thrown"
             THEN [pc |-> "thrown", error |-> ParseError(callIn.op, callIn.body),
                   messageHasBody |->
                     MessageHasBody(callIn.op, ParseError(callIn.op, callIn.body))]
             ELSE [pc |-> "returned", error |-> "none"])
       ELSE IF ~ContentTypeAccepted(callIn.contentType)
       THEN [pc |-> "thrown", error |-> "contentType", framesRead |-> 0,
             messageHasBody |-> MessageHasBody(callIn.op, "contentType")]
       ELSE [pc |-> "decoding", error |-> "none", framesRead |-> 0,
             leftBytes |-> EncodeFrames(callIn.frames), result |-> <<>>,
             lastAppendedStreamType |-> -1, messageHasBody |-> FALSE]
  /\ UNCHANGED <<callIn, sched>>

\* one turn of the while loop of lines 218-236
DecodeFrame ==
  /\ callIn.op = "getContainerLogs" /\ callOut # NoCall /\ callOut.pc = "decoding"
  /\ Len(callOut.leftBytes) > 0
  /\ callOut.framesRead < MaxDecodeTurns
  /\ LET headerBytes == Subarray(callOut.leftBytes, 0, 8)
         streamType == headerBytes[1]
         frameSize == FrameSize(headerBytes)
         payloadBytes == Subarray(callOut.leftBytes, 8, FrameEnd(Len(callOut.leftBytes), frameSize))
         leftBytes == Subarray(callOut.leftBytes, FrameEnd(Len(callOut.leftBytes), frameSize),
                               Len(callOut.leftBytes))
         marked == NeedsMarker(streamType, callOut.lastAppendedStreamType)
     IN callOut' =
          IF marked /\ ~KnownStreamType(streamType)
          THEN [callOut EXCEPT !.pc = "thrown", !.error = "streamType",
                               !.messageHasBody =
                                 MessageHasBody(callIn.op, "streamType"),
                               !.leftBytes = leftBytes,
                               !.framesRead = @ + 1]
          ELSE [callOut EXCEPT !.leftBytes = leftBytes,
                               !.framesRead = @ + 1,
                               !.result = @ \o (IF marked THEN Marker(streamType) ELSE <<>>)
                                            \o BufferToString(payloadBytes),
                               !.lastAppendedStreamType = streamType]
  /\ UNCHANGED <<callIn, transport, sched>>

\* the loop ends: return result
DecodeReturns ==
  /\ callIn.op = "getContainerLogs" /\ callOut # NoCall /\ callOut.pc = "decoding"
  /\ Len(callOut.leftBytes) = 0
  /\ callOut' = [callOut EXCEPT !.pc = "returned"]
  /\ UNCHANGED <<callIn, transport, sched>>

ApiNext == HttpRequest \/ TransportError \/ ApiResponds \/ DecodeFrame \/ DecodeReturns

ApiSpec == ApiInit /\ [][ApiNext]_vars

\* ------------------------------ runBuilderInOwnContainer, lines 57-63
\* waitOnContainer has returned exitCode; were the logs fetched, the engine
\* would answer with a text of some number of lines, line i reading i
CaptureInit ==
  /\ SchedInit
  /\ \E exit \in ExitCodes, n \in 1..MaxLogLines :
       callIn = [op |-> "captureLogs", exitCode |-> exit, text |-> [i \in 1..n |-> i]]
  /\ callOut = NoCall
  /\ transport = NoTransport

\* lines 58-63: only after a non-zero exit the logs are fetched and cut
CaptureLogs ==
  /\ callIn.op = "captureLogs" /\ callOut = NoCall
  /\ callOut' = IF FetchesLogs(callIn.exitCode)
                THEN [op |-> "captureLogs", fetched |-> TRUE,
                      containerLogs |-> LogTail(callIn.text)]
                ELSE [op |-> "captureLogs", fetched |-> FALSE, containerLogs |-> <<>>]
  /\ UNCHANGED <<callIn, transport, sched>>

CaptureNext == CaptureLogs

CaptureSpec == CaptureInit /\ [][CaptureNext]_vars

\* ------------------------------------------- app mode main, lines 110-122
\* the tasks of the outer Async.parallelLimit, in the order of the array
GroupedKinds ==
  <<"papermc.io/paper", "papermc.io/velocity", "papermc.io/waterfall",
    "papermc.io/folia", "papermc.io/travertine">>

Grouped == {GroupedKinds[n] : n \in 1..Len(GroupedKinds)}

AllKinds == Kinds \cup Grouped

\* the grouped kinds whose buildAllVersionsOfSomething is called and not settled
GroupActive(phase) == {k \in Grouped : phase[k] \in {"preparing", "building"}}

\* fault variant: the outer pool starts its tasks without a limit
GroupAdmits_All(active) == TRUE

\* Async.parallelLimit(tasks, 1) starts a task while fewer than 1 are running
GroupAdmits(active) == active < GroupLimit

\* Promise.all of line 110 has been handed its three promises: spigot and
\* purpur are called, the outer pool has its five tasks; every kind will
\* find the same number of versions to build
PoolsInit ==
  /\ SchedInit
  /\ \E n \in 1..MaxKindJobs : callIn = [op |-> "pools", toBuild |-> n]
  /\ callOut = [exit |-> -1,
                phase |-> [k \in AllKinds |-> IF k \in Kinds THEN "preparing" ELSE "idle"],
                left |-> [k \in AllKinds |-> 0],
                inFlight |-> [k \in AllKinds |-> 0]]
  /\ transport = NoTransport

PoolsRunning == callIn.op = "pools" /\ callOut.exit < 0

\* the outer pool calls the next of its tasks
GroupStart(k) ==
  /\ PoolsRunning /\ k \in Grouped /\ callOut.phase[k] = "idle"
  /\ \A n \in 1..Len(GroupedKinds) :
       GroupedKinds[n] = k => \A m \in 1..(n - 1) : callOut.phase[GroupedKinds[m]] # "idle"
  /\ GroupAdmits(Cardinality(GroupActive(callOut.phase)))
  /\ callOut' = [callOut EXCEPT !.phase[k] = "preparing"]
  /\ UNCHANGED <<callIn, transport, sched>>

\* buildAllVersionsOfSomething of kind k reaches its Async.parallelLimit call
KindPrepared(k) ==
  /\ PoolsRunning /\ callOut.phase[k] = "preparing"
  /\ callOut' = [callOut EXCEPT !.phase[k] = "building", !.left[k] = callIn.toBuild]
  /\ UNCHANGED <<callIn, transport, sched>>

\* getKnownVersions or the bulk check of kind k throws: Promise.all rejects,
\* the async main rejects unhandled
KindThrows(k) ==
  /\ PoolsRunning /\ callOut.phase[k] = "preparing"
  /\ callOut' = [callOut EXCEPT !.phase[k] = "thrown", !.exit = 1]
  /\ UNCHANGED <<callIn, transport, sched>>

\* the pool of kind k starts a build task
JobStart(k) ==
  /\ PoolsRunning /\ callOut.phase[k] = "building" /\ callOut.left[k] > 0
  /\ callOut.inFlight[k] < WorkerCount(k)
  /\ callOut' = [callOut EXCEPT !.left[k] = @ - 1, !.inFlight[k] = @ + 1]
  /\ UNCHANGED <<callIn, transport, sched>>

\* a build task of kind k settles
JobEnd(k) ==
  /\ PoolsRunning /\ callOut.inFlight[k] > 0
  /\ callOut' = [callOut EXCEPT !.inFlight[k] = @ - 1]
  /\ UNCHANGED <<callIn, transport, sched>>

\* the pool of kind k has drained: buildAllVersionsOfSomething returns
KindReturns(k) ==
  /\ PoolsRunning /\ callOut.phase[k] = "building"
  /\ callOut.left[k] = 0 /\ callOut.inFlight[k] = 0
  /\ callOut' = [callOut EXCEPT !.phase[k] = "returned"]
  /\ UNCHANGED <<callIn, transport, sched>>

\* Promise.all resolves: console.log('All done'); process.exit(0)
PoolsAllDone ==
  /\ PoolsRunning /\ \A k \in AllKinds : callOut.phase[k] = "returned"
  /\ callOut' = [callOut EXCEPT !.exit = ExitGraceful]
  /\ UNCHANGED <<callIn, transport, sched>>

PoolsNext ==
  \/ \E k \in Grouped : GroupStart(k)
  \/ \E k \in AllKinds : KindPrepared(k)
  \/ \E k \in AllKinds : KindThrows(k)
  \/ \E k \in AllKinds : JobStart(k)
  \/ \E k \in AllKinds : JobEnd(k)
  \/ \E k \in AllKinds : KindReturns(k)
  \/ PoolsAllDone

PoolsSpec == PoolsInit /\ [][PoolsNext]_vars

\* ------------------------------------------------ builder mode, lines 124-169
\* the characters of a --builderArg value
ArgChars == {"a", "b", "="}

\* the strings yargs hands over as items of argv.builderArg
ArgStrings == SeqsUpTo(ArgChars, MaxArgLen)

\* argv.builder: the positional, or a value that is no string
BuilderNameValues ==
  {[type |-> "string", text |-> "spigotmc.org/spigot"],
   [type |-> "string", text |-> ""],
   [type |-> "undefined", text |-> ""]}

\* argv.builderArg: absent, an array of strings, or a value that is no array
BuilderArgValues ==
  {[type |-> "undefined", items |-> <<>>], [type |-> "string", items |-> <<>>]}
    \cup {[type |-> "array", items |-> items] : items \in SeqsUpTo(ArgStrings, MaxArgs)}

\* String.prototype.indexOf('='), counted from 1; 0 where JS gives -1
IndexOfEquals(str) ==
  IF \E i \in 1..Len(str) : str[i] = "="
  THEN CHOOSE i \in 1..Len(str) : str[i] = "=" /\ \A h \in 1..(i - 1) : str[h] # "="
  ELSE 0

\* lines 143-148: the key is the text before the first '=', or the whole text
ArgKey(str) == IF IndexOfEquals(str) # 0 THEN SubSeq(str, 1, IndexOfEquals(str) - 1) ELSE str

\* lines 144-148: the value is the text after the first '=', or empty
ArgValue(str) ==
  IF IndexOfEquals(str) # 0 THEN SubSeq(str, IndexOfEquals(str) + 1, Len(str)) ELSE <<>>

\* line 150: parsedBuilderArgs.has(key)
DuplicateKey(parsed, key) == key \in DOMAIN parsed

\* lines 140-155: the loop over builderArgs from item i on; "duplicate" when
\* line 150 exits the process, the filled Map otherwise
RECURSIVE ParseBuilderArgs(_, _, _)
ParseBuilderArgs(items, i, parsed) ==
  IF i > Len(items) THEN [ok |-> TRUE, map |-> parsed]
  ELSE IF DuplicateKey(parsed, ArgKey(items[i])) THEN [ok |-> FALSE, map |-> parsed]
  ELSE ParseBuilderArgs(items, i + 1,
         [key \in DOMAIN parsed \cup {ArgKey(items[i])} |->
            IF key = ArgKey(items[i]) THEN ArgValue(items[i]) ELSE parsed[key]])

\* the empty Map of line 138
EmptyMap == [key \in {} |-> <<>>]

\* lines 128 and 132: the two checks that end the process with code 1
BuilderNameRejected(name) == name.type # "string" \/ Len(name.text) = 0

BuilderArgsRejected(args) == args.type # "undefined" /\ args.type # "array"

BuilderInit ==
  /\ SchedInit
  /\ \E name \in BuilderNameValues, args \in BuilderArgValues :
       callIn = [op |-> "builder", builder |-> name, builderArg |-> args]
  /\ callOut = [pc |-> "args", exit |-> -1, parsed |-> EmptyMap, build |-> "none",
                workspace |-> "none"]
  /\ transport = NoTransport

\* lines 125-155: a check fails and process.exit(1) ends the process
BuilderArgsInvalid ==
  /\ callOut.pc = "args"
  /\ \/ BuilderNameRejected(callIn.builder)
     \/ BuilderArgsRejected(callIn.builderArg)
     \/ ~ParseBuilderArgs(callIn.builderArg.items, 1, EmptyMap).ok
  /\ callOut' = [callOut EXCEPT !.pc = "exited", !.exit = ExitFailure]
  /\ UNCHANGED <<callIn, transport, sched>>

\* lines 125-160: the checks pass, the workspace is made and build() is called
BuilderStartsBuild ==
  /\ callOut.pc = "args"
  /\ ~BuilderNameRejected(callIn.builder)
  /\ ~BuilderArgsRejected(callIn.builderArg)
  /\ ParseBuilderArgs(callIn.builderArg.items, 1, EmptyMap).ok
  /\ callOut' = [callOut EXCEPT !.pc = "building", !.workspace = "exists",
                   !.parsed = ParseBuilderArgs(callIn.builderArg.items, 1, EmptyMap).map]
  /\ UNCHANGED <<callIn, transport, sched>>

\* line 160: Fs.mkdtempSync throws; the exception is uncaught
MkdtempThrows ==
  /\ callOut.pc = "args"
  /\ ~BuilderNameRejected(callIn.builder)
  /\ ~BuilderArgsRejected(callIn.builderArg)
  /\ ParseBuilderArgs(callIn.builderArg.items, 1, EmptyMap).ok
  /\ callOut' = [callOut EXCEPT !.pc = "exited", !.exit = ExitFailure]
  /\ UNCHANGED <<callIn, transport, sched>>

\* lines 161-162: build() resolves, the then-callback logs, finally() is next
BuildResolves ==
  /\ callOut.pc = "building"
  /\ callOut' = [callOut EXCEPT !.pc = "finally", !.build = "resolved"]
  /\ UNCHANGED <<callIn, transport, sched>>

\* lines 163-166: build() rejects; the catch-callback calls process.exit(1),
\* which ends the process before the finally-callback is run
BuildRejects ==
  /\ callOut.pc = "building"
  /\ callOut' = [callOut EXCEPT !.pc = "exited", !.exit = ExitFailure, !.build = "rejected"]
  /\ UNCHANGED <<callIn, transport, sched>>

\* lines 167-169: Fs.rmSync returns, the workspace is gone; nothing is left
\* to run and node exits 0
RmSyncReturns ==
  /\ callOut.pc = "finally"
  /\ callOut' = [callOut EXCEPT !.pc = "exited", !.exit = ExitGraceful,
                   !.workspace = "removed"]
  /\ UNCHANGED <<callIn, transport, sched>>

\* lines 167-169: Fs.rmSync throws inside the finally-callback and leaves the
\* workspace; the promise finally() returned rejects with no handler and node
\* exits with code 1
RmSyncThrows ==
  /\ callOut.pc = "finally"
  /\ callOut' = [callOut EXCEPT !.pc = "exited", !.exit = ExitFailure]
  /\ UNCHANGED <<callIn, transport, sched>>

BuilderNext ==
  \/ BuilderArgsInvalid
  \/ BuilderStartsBuild
  \/ MkdtempThrows
  \/ BuildResolves
  \/ BuildRejects
  \/ RmSyncReturns
  \/ RmSyncThrows

BuilderSpec == BuilderInit /\ [][BuilderNext]_vars

\* ------------------------------- PodmanApi create and delete, lines 139-171
\* ids the engine can hand out
EngineIds == 1..MaxEngineIds

\* the container specifications runBuilderInOwnContainer posts
ContainerConfigs ==
  [builderName : Kinds, read_only_filesystem : BOOLEAN]

\* fault variant: every flag is appended with a question mark
QueryArgs_QuestionMarks(force, ignore) ==
  (IF force THEN <<"?force=true">> ELSE <<>>) \o (IF ignore THEN <<"?ignore=true">> ELSE <<>>)

\* lines 140-146: the query string, one element per flag appended
QueryArgs(force, ignore) ==
  (IF force THEN <<"?force=true">> ELSE <<>>)
    \o (IF ignore THEN <<IF force THEN "&ignore=true" ELSE "?ignore=true">> ELSE <<>>)

\* the engine reads a flag from the query: the first parameter follows '?',
\* every later one follows '&'
QueryHas(query, flag) ==
  \E i \in 1..Len(query) :
    query[i] = (IF i = 1 THEN "?" ELSE "&") \o flag \o "=true"

\* a container with this state exists in the engine
Exists(cstate) == cstate \notin {"none", "removed"}

\* POST /containers/create: 201 and a fresh Id, 500 when the engine has none
FreshIds(engine) == {c \in EngineIds : ~Exists(engine[c])}

\* the engine before the first call: other containers may exist and run
CleanupInit ==
  /\ SchedInit
  /\ \E config \in ContainerConfigs : callIn = [op |-> "cleanup", config |-> config]
  /\ \E engine \in [EngineIds -> {"none", "running"}] :
       callOut = [pc |-> "start", engine |-> engine, before |-> engine, id |-> 0,
                  status |-> 0, force |-> FALSE, ignore |-> FALSE]
  /\ transport = NoTransport

\* lines 160-171: createContainer returns the Id of the 201 response
CleanupCreate ==
  /\ callOut.pc = "start" /\ FreshIds(callOut.engine) # {}
  /\ \E c \in FreshIds(callOut.engine) :
       callOut' = [callOut EXCEPT !.pc = "created", !.id = c,
                     !.status = ExpectedStatus("createContainer"),
                     !.engine = [@ EXCEPT ![c] = "created"]]
  /\ UNCHANGED <<callIn, transport, sched>>

\* lines 161-164: the engine cannot create the container and createContainer throws
CleanupCreateThrows ==
  /\ callOut.pc = "start" /\ FreshIds(callOut.engine) = {}
  /\ callOut' = [callOut EXCEPT !.pc = "createThrown", !.status = 500]
  /\ UNCHANGED <<callIn, transport, sched>>

\* lines 173-178: startContainer(id) between the two calls
CleanupStartContainer ==
  /\ callOut.pc = "created" /\ callOut.engine[callOut.id] = "created"
  /\ callOut' = [callOut EXCEPT !.status = EngineStart(callOut.engine[callOut.id]).status,
                   !.engine = [@ EXCEPT ![callOut.id] = EngineStart(@).state]]
  /\ UNCHANGED <<callIn, transport, sched>>

\* lines 139-158: deleteContainer(id, force, ignore); it returns when the
\* status is 200 and throws otherwise
CleanupDelete ==
  /\ callOut.pc = "created"
  /\ \E force, ignore \in BOOLEAN :
       LET answer == EngineDelete(callOut.engine[callOut.id],
                                  QueryHas(QueryArgs(force, ignore), "force"),
                                  QueryHas(QueryArgs(force, ignore), "ignore"))
       IN  callOut' = [callOut EXCEPT
                         !.pc = IF answer.status = ExpectedStatus("deleteContainer")
                                THEN "deleted" ELSE "deleteThrown",
                         !.status = answer.status, !.force = force, !.ignore = ignore,
                         !.engine = [@ EXCEPT ![callOut.id] = answer.state]]
  /\ UNCHANGED <<callIn, transport, sched>>

\* lines 139-158: the cleanup is repeated, deleteContainer(id, force, ignore)
\* once more after the delete that returned
CleanupRepeat ==
  /\ callOut.pc = "deleted"
  /\ \E force, ignore \in BOOLEAN :
       LET answer == EngineDelete(callOut.engine[callOut.id],
                                  QueryHas(QueryArgs(force, ignore), "force"),
                                  QueryHas(QueryArgs(force, ignore), "ignore"))
       IN  callOut' = [callOut EXCEPT
                         !.pc = IF answer.status = ExpectedStatus("deleteContainer")
                                THEN "repeated" ELSE "repeatThrown",
                         !.status = answer.status, !.force = force, !.ignore = ignore,
                         !.before = callOut.engine,
                         !.engine = [@ EXCEPT ![callOut.id] = answer.state]]
  /\ UNCHANGED <<callIn, transport, sched>>

CleanupNext ==
  \/ CleanupCreate
  \/ CleanupCreateThrows
  \/ CleanupStartContainer
  \/ CleanupDelete
  \/ CleanupRepeat

CleanupSpec == CleanupInit /\ [][CleanupNext]_vars

\* --------------------------------- artifactAlreadyInOutputDirBulk, strategies
\* the registered strategies, one per implementation of the check
Strategies ==
  {"spigotmc.org/spigot", "papermc.io/paper", "purpurmc.org/purpur",
   "pufferfish.host", "mojang.com"}

\* strategies that extend AbstractPaperMcIoArtifactBuilder or test the same pattern
PatternStrategies == {"papermc.io/paper", "purpurmc.org/purpur"}

\* entries an output directory may hold: path below the directory, file or not
OutputEntries ==
  {[path |-> <<"Build 42 [1.20.4].jar">>, isFile |-> TRUE],
   [path |-> <<"Build 42 [1.20.5].jar.part">>, isFile |-> TRUE],
   [path |-> <<"Build 7 [1.20.5].jar">>, isFile |-> FALSE],
   [path |-> <<"1.20.4">>, isFile |-> FALSE],
   [path |-> <<"1.20.4", "42">>, isFile |-> FALSE]}

\* an output directory: every entry lies in a directory that is there
OutputDirs ==
  {dir \in SUBSET OutputEntries :
     \A e \in dir : Len(e.path) > 1 =>
       [path |-> SubSeq(e.path, 1, Len(e.path) - 1), isFile |-> FALSE] \in dir}

\* the version values handed over in the argument maps
BulkVersions == {"1.20.4", "1.20.5", "latest", "1.20.4-42"}

\* the argument maps: with the key 'version', or without it
ArgMaps == {EmptyMap} \cup {[key \in {"version"} |-> v] : v \in BulkVersions}

\* character i of a string, "" beyond its end
CharAt(str, i) == IF i >= 1 /\ i <= Len(str) THEN SubSeq(str, i, i) ELSE ""

\* \d
IsDigit(c) == c \in {"0", "1", "2", "3", "4", "5", "6", "7", "8", "9"}

\* [a-z] under the flag i
IsLetter(c) ==
  \E i \in 1..52 : c = CharAt("abcdefghijklmnopqrstuvwxyzABCDEFGHIJKLMNOPQRSTUVWXYZ", i)

\* the last index of the longest run of digits that starts at i, i - 1 if none
DigitsEnd(str, i) ==
  CHOOSE j \in (i - 1)..Len(str) :
    /\ \A h \in i..j : IsDigit(CharAt(str, h))
    /\ ~IsDigit(CharAt(str, j + 1))

\* the same for [a-z0-9]*
AlnumEnd(str, i) ==
  CHOOSE j \in (i - 1)..Len(str) :
    /\ \A h \in i..j : IsDigit(CharAt(str, h)) \/ IsLetter(CharAt(str, h))
    /\ ~(IsDigit(CharAt(str, j + 1)) \/ IsLetter(CharAt(str, j + 1)))

\* (\.\d+) after index i: the index it ends at, i when it does not match
DotGroupEnd(str, i) ==
  IF CharAt(str, i + 1) = "." /\ DigitsEnd(str, i + 2) >= i + 2
  THEN DigitsEnd(str, i + 2) ELSE i

\* (-[a-z][a-z0-9]*)? after index i: the index it ends at, i when it is absent
LabelEnd(str, i) ==
  IF CharAt(str, i + 1) = "-" /\ IsLetter(CharAt(str, i + 2))
  THEN AlnumEnd(str, i + 3) ELSE i

\* VERSION_INPUT_PATTERN.test: /^\d+(\.\d+){0,2}(-[a-z][a-z0-9]*)?-\d+$/i
VersionInputPattern(str) ==
  LET first == DigitsEnd(str, 1)
      label == LabelEnd(str, DotGroupEnd(str, DotGroupEnd(str, first)))
  IN  /\ first >= 1
      /\ CharAt(str, label + 1) = "-"
      /\ label + 2 <= Len(str)
      /\ DigitsEnd(str, label + 2) = Len(str)

\* String.prototype.lastIndexOf('-'), counted from 1; 0 where JS gives -1
LastIndexOfDash(str) ==
  IF \E i \in 1..Len(str) : CharAt(str, i) = "-"
  THEN CHOOSE i \in 1..Len(str) :
         CharAt(str, i) = "-" /\ \A h \in (i + 1)..Len(str) : CharAt(str, h) # "-"
  ELSE 0

\* version.substring(0, version.lastIndexOf('-'))
ProjectVersion(version) ==
  IF LastIndexOfDash(version) <= 1 THEN "" ELSE SubSeq(version, 1, LastIndexOfDash(version) - 1)

\* version.substring(version.lastIndexOf('-') + 1)
ProjectBuildNumber(version) ==
  IF LastIndexOfDash(version) >= Len(version) THEN ""
  ELSE SubSeq(version, LastIndexOfDash(version) + 1, Len(version))

\* Path.join below the output directory: empty segments vanish
PathJoin(segments) == SelectSeq(segments, LAMBDA seg : seg # "")

\* Fs.existsSync of a path below the output directory
ExistsSync(dir, path) == path = <<>> \/ \E e \in dir : e.path = path

\* fault variant: the name only has to contain the suffix
EndsWith_Includes(name, suffix) ==
  \E i \in 1..(Len(name) - Len(suffix) + 1) : SubSeq(name, i, i + Len(suffix) - 1) = suffix

\* String.prototype.endsWith
EndsWith(name, suffix) ==
  /\ Len(name) >= Len(suffix)
  /\ SubSeq(name, Len(name) - Len(suffix) + 1, Len(name)) = suffix

\* Fs.promises.readdir(outputDirectory, { withFileTypes: true })
Readdir(dir) == {[name |-> e.path[1], isFile |-> e.isFile] : e \in {d \in dir : Len(d.path) = 1}}

\* JS boolean as tri-state
TriState(b) == IF b THEN "true" ELSE "false"

\* what one argument map is answered with: "thrown", or a tri-state
\* spigot: the two map callbacks of part_003 lines 278-293
\* papermc.io and purpur: artifactAlreadyInOutputDir with the pattern test
\* pufferfish: the same without the pattern test; mojang: <out>/<version>
CheckOne(strategy, dir, arg) ==
  IF "version" \notin DOMAIN arg THEN "thrown"
  ELSE IF strategy = "spigotmc.org/spigot"
  THEN IF arg["version"] = "latest" THEN "null"
       ELSE TriState(\E f \in Readdir(dir) :
                       f.isFile /\ EndsWith(f.name, " [" \o arg["version"] \o "].jar"))
  ELSE IF strategy = "mojang.com"
  THEN TriState(ExistsSync(dir, PathJoin(<<arg["version"]>>)))
  ELSE IF strategy \in PatternStrategies /\ ~VersionInputPattern(arg["version"])
  THEN "thrown"
  ELSE TriState(ExistsSync(dir, PathJoin(<<ProjectVersion(arg["version"]),
                                           ProjectBuildNumber(arg["version"])>>)))

\* fault variant: each answer is put in front of the earlier ones
RECURSIVE BulkResult_Unshift(_, _, _, _)
BulkResult_Unshift(strategy, dir, args, result) ==
  IF args = <<>> THEN [thrown |-> FALSE, result |-> result]
  ELSE IF CheckOne(strategy, dir, Head(args)) = "thrown"
  THEN [thrown |-> TRUE, result |-> <<>>]
  ELSE BulkResult_Unshift(strategy, dir, Tail(args),
                          <<CheckOne(strategy, dir, Head(args))>> \o result)

\* the loop `for (const arg of args) result.push(...)`, and for spigot the
\* two `map` calls, which answer in the order of args; the first argument
\* that throws ends the call
RECURSIVE BulkResult(_, _, _, _)
BulkResult(strategy, dir, args, result) ==
  IF args = <<>> THEN [thrown |-> FALSE, result |-> result]
  ELSE IF CheckOne(strategy, dir, Head(args)) = "thrown"
  THEN [thrown |-> TRUE, result |-> <<>>]
  ELSE BulkResult(strategy, dir, Tail(args),
                  Append(result, CheckOne(strategy, dir, Head(args))))

BulkInit ==
  /\ SchedInit
  /\ \E strategy \in Strategies, dir \in OutputDirs, args \in SeqsUpTo(ArgMaps, MaxBulkArgs) :
       callIn = [op |-> "bulk", strategy |-> strategy, dir |-> dir, args |-> args]
  /\ callOut = NoCall
  /\ transport = NoTransport

\* artifactAlreadyInOutputDirBulk({ outputDirectory }, args) returns; the
\* call reads the directory (readdir, existsSync) and writes nothing
BulkReturns ==
  /\ callIn.op = "bulk" /\ callOut = NoCall
  /\ ~BulkResult(callIn.strategy, callIn.dir, callIn.args, <<>>).thrown
  /\ callOut' = [op |-> "bulk", thrown |-> FALSE, dir |-> callIn.dir,
                 result |-> BulkResult(callIn.strategy, callIn.dir, callIn.args, <<>>).result]
  /\ UNCHANGED <<callIn, transport, sched>>

\* the call throws: an argument map without version, or a version the
\* pattern refuses
BulkThrows ==
  /\ callIn.op = "bulk" /\ callOut = NoCall
  /\ BulkResult(callIn.strategy, callIn.dir, callIn.args, <<>>).thrown
  /\ callOut' = [op |-> "bulk", thrown |-> TRUE, dir |-> callIn.dir, result |-> <<>>]
  /\ UNCHANGED <<callIn, transport, sched>>

BulkNext == BulkReturns \/ BulkThrows

BulkSpec == BulkInit /\ [][BulkNext]_vars

\* ------------------------- runBuilderInOwnContainer, line 20: the command
\* the characters of a string, as the sequences the argument parsing works on
Chars(str) == [i \in 1..Len(str) |-> SubSeq(str, i, i)]

\* keys and values of the builderArgs map
CommandKeys == {<<"a">>, <<"b">>, <<"a", "=">>}

CommandValues == {<<>>, <<"a">>, <<"=">>, <<"a", "=", "b">>}

\* Array.from(builderArgs.entries()): entries in insertion order, keys distinct
CommandMaps ==
  {entries \in SeqsUpTo([key : CommandKeys, value : CommandValues], MaxArgs) :
     \A i, h \in 1..Len(entries) : i # h => entries[i].key # entries[h].key}

\* `${key}=${value}`
KeyValue(entry) == entry.key \o <<"=">> \o entry.value

\* line 20: IS_PRODUCTION ? [...] : [...]; the conditional has the whole
\* second array, with 'builder', the name and the arguments, as its else-branch
Command(production, builderName, entries) ==
  IF production
  THEN <<Chars("node"), Chars("--enable-source-maps"), Chars("dist/main.js")>>
  ELSE <<Chars("node"), Chars("src/main.ts"), Chars("builder"), Chars(builderName),
         Chars("--builderArg")>> \o [i \in 1..Len(entries) |-> KeyValue(entries[i])]

\* the elements node hands to the script: those after the script path, which
\* is the first element after 'node' that is not an option of node
ScriptArgs(command) ==
  LET script == CHOOSE i \in 2..Len(command) :
                  /\ command[i][1] # "-"
                  /\ \A h \in 2..(i - 1) : command[h][1] = "-"
  IN  SubSeq(command, script + 1, Len(command))

\* yargs: the values that follow --builderArg
BuilderArgItems(args) ==
  IF \E i \in 1..Len(args) : args[i] = Chars("--builderArg")
  THEN SubSeq(args, 1 + (CHOOSE i \in 1..Len(args) : args[i] = Chars("--builderArg")),
              Len(args))
  ELSE <<>>

\* part_008 lines 31-37 and 124-155: what main makes of the command line
RunMain(args) ==
  IF Len(args) = 0 THEN [mode |-> "help", builder |-> <<>>, ok |-> FALSE, map |-> EmptyMap]
  ELSE IF args[1] = Chars("builder") /\ Len(args) >= 2
  THEN [mode |-> "builder", builder |-> args[2],
        ok |-> ParseBuilderArgs(BuilderArgItems(args), 1, EmptyMap).ok,
        map |-> ParseBuilderArgs(BuilderArgItems(args), 1, EmptyMap).map]
  ELSE [mode |-> "other", builder |-> <<>>, ok |-> FALSE, map |-> EmptyMap]

CommandInit ==
  /\ SchedInit
  /\ \E production \in BOOLEAN, k \in Kinds, entries \in CommandMaps :
       callIn = [op |-> "command", production |-> production, builderName |-> k,
                 builderArgs |-> entries]
  /\ callOut = NoCall
  /\ transport = NoTransport

\* lines 17-50: createContainer is called with the command
CommandBuilt ==
  /\ callIn.op = "command" /\ callOut = NoCall
  /\ callOut' = [op |-> "command", pc |-> "created",
                 command |-> Command(callIn.production, callIn.builderName, callIn.builderArgs),
                 ran |-> RunMain(<<>>)]
  /\ UNCHANGED <<callIn, transport, sched>>

\* the container is started and main reads its command line
ContainerRuns ==
  /\ callIn.op = "command" /\ callOut # NoCall /\ callOut.pc = "created"
  /\ callOut' = [callOut EXCEPT !.pc = "ran", !.ran = RunMain(ScriptArgs(callOut.command))]
  /\ UNCHANGED <<callIn, transport, sched>>

CommandNext == CommandBuilt \/ ContainerRuns

CommandSpec == CommandInit /\ [][CommandNext]_vars

\* -------------------------------------- app mode without interrupt, fair
\* the steps of the scheduler when no SIGINT is delivered
LiveNext ==
  \/ Prune
  \/ BuildImage
  \/ StartupFails
  \/ \E k \in Kinds : KindPrepare(k)
  \/ \E k \in Kinds : KindPrepareFails(k)
  \/ AllDone
  \/ \E k \in Kinds, i \in 1..MaxTasks : TaskStart(k, i)
  \/ \E k \in Kinds, i \in 1..MaxTasks : TaskFinish(k, i)
  \/ \E k \in Kinds, i \in 1..MaxTasks : EngineCreate(k, i)
  \/ \E k \in Kinds, i \in 1..MaxTasks : CreateReturns(k, i)
  \/ \E k \in Kinds, i \in 1..MaxTasks : StartResponse(k, i)
  \/ \E k \in Kinds, i \in 1..MaxTasks : WaitResponse(k, i)
  \/ \E k \in Kinds, i \in 1..MaxTasks : LogsResponse(k, i)
  \/ \E k \in Kinds, i \in 1..MaxTasks : DeleteResponse(k, i)

\* every engine call is answered in the end, every container exits in the
\* end, and the event loop runs every continuation that is ready
LiveFairness ==
  /\ WF_vars(Prune \/ StartupFails)
  /\ WF_vars(BuildImage \/ StartupFails)
  /\ WF_vars(AllDone)
  /\ \A k \in Kinds : WF_vars(KindPrepare(k) \/ KindPrepareFails(k))
  /\ \A k \in Kinds, i \in 1..MaxTasks :
       /\ WF_vars(TaskStart(k, i))
       /\ WF_vars(TaskFinish(k, i))
       /\ WF_vars(EngineCreate(k, i))
       /\ WF_vars(CreateReturns(k, i))
       /\ WF_vars(StartResponse(k, i))
       /\ WF_vars(WaitResponse(k, i))
       /\ WF_vars(LogsResponse(k, i))
       /\ WF_vars(DeleteResponse(k, i))

LiveSpec == Init /\ [][LiveNext]_vars /\ LiveFairness

\* ------------------------------------- ownership label and startup prune
\* labels: { 'dev.sprax.minecraft-artifact-builder': '1' } of createContainer
ContainerLabels == [key \in {"dev.sprax.minecraft-artifact-builder"} |-> "1"]

\* fault variant: the prune filters on a value the containers do not carry
PruneFilters_OtherValue == [label |-> <<"dev.sprax.minecraft-artifact-builder=true">>]

\* deleteStoppedContainers({ label: ['dev.sprax.minecraft-artifact-builder'] });
\* JSON.stringify leaves out the undefined 'until'
PruneFilters == [label |-> <<"dev.sprax.minecraft-artifact-builder">>]

\* index of the first '=' of a filter, 0 if it has none
FilterEquals(filter) ==
  IF \E i \in 1..Len(filter) : CharAt(filter, i) = "="
  THEN CHOOSE i \in 1..Len(filter) :
         CharAt(filter, i) = "=" /\ \A h \in 1..(i - 1) : CharAt(filter, h) # "="
  ELSE 0

\* the engine's label filter: "key" asks for the key, "key=value" for the pair
LabelMatches(labels, filter) ==
  IF FilterEquals(filter) = 0 THEN filter \in DOMAIN labels
  ELSE LET key == SubSeq(filter, 1, FilterEquals(filter) - 1)
           value == SubSeq(filter, FilterEquals(filter) + 1, Len(filter))
       IN  key \in DOMAIN labels /\ labels[key] = value

\* POST /containers/prune?filters=: the containers that are not running and
\* match every label filter
Pruned(engine, filters) ==
  {c \in DOMAIN engine :
     /\ engine[c].state \in {"created", "exited"}
     /\ \A n \in 1..Len(filters.label) : LabelMatches(engine[c].labels, filters.label[n])}

\* labels of containers that other programs have created
ForeignLabels ==
  {[key \in {} |-> "1"],
   [key \in {"io.buildah.version"} |-> "1"],
   [key \in {"dev.sprax.other-tool"} |-> "1"]}

\* what a slot of the engine holds when the program starts: nothing, a
\* container a previous run created with createContainer, or a foreign one
LeftOvers ==
  {[origin |-> "none", labels |-> [key \in {} |-> "1"], state |-> "none"]}
    \cup [origin : {"own"}, labels : {ContainerLabels}, state : {"created", "running", "exited"}]
    \cup [origin : {"foreign"}, labels : ForeignLabels, state : {"created", "running", "exited"}]

PruneInit ==
  /\ SchedInit
  /\ callIn = [op |-> "prune", filters |-> PruneFilters]
  /\ \E engine \in [EngineIds -> LeftOvers] :
       callOut = [pc |-> "start", before |-> engine, engine |-> engine, pruned |-> {}]
  /\ transport = NoTransport

\* part_008 lines 103-106: the engine answers the prune of the startup
PruneAnswered ==
  /\ callIn.op = "prune" /\ callOut.pc = "start"
  /\ callOut' = [callOut EXCEPT
                   !.pc = "pruned",
                   !.pruned = Pruned(callOut.engine, callIn.filters),
                   !.engine = [c \in EngineIds |->
                                 IF c \in Pruned(callOut.engine, callIn.filters)
                                 THEN [origin |-> "none", labels |-> [key \in {} |-> "1"],
                                       state |-> "none"]
                                 ELSE callOut.engine[c]]]
  /\ UNCHANGED <<callIn, transport, sched>>

\* lines 189-196: the engine answers with an unexpected status and nothing
\* is pruned; deleteStoppedContainers throws
PruneRejected ==
  /\ callIn.op = "prune" /\ callOut.pc = "start"
  /\ callOut' = [callOut EXCEPT !.pc = "thrown"]
  /\ UNCHANGED <<callIn, transport, sched>>

PruneNext == PruneAnswered \/ PruneRejected

PruneSpec == PruneInit /\ [][PruneNext]_vars

\* --------------------------- getContainerLogs, lines 214-238, on any body
\* values of the 4-byte length field: 0, 2, 9, 2^31 - 1, and with the top
\* bit set -2^31, -9, -8, -7 and -1
LengthFields ==
  {<<0, 0, 0, 0>>, <<0, 0, 0, 2>>, <<0, 0, 0, 9>>, <<127, 255, 255, 255>>,
   <<128, 0, 0, 0>>, <<255, 255, 255, 247>>, <<255, 255, 255, 248>>,
   <<255, 255, 255, 249>>, <<255, 255, 255, 255>>}

\* what follows the first header: nothing, 'hi', or 'hi' and a frame 'x'
BodyTails ==
  {<<>>, <<104, 105>>, <<104, 105>> \o EncodeFrame([type |-> 1, payload |-> <<120>>])}

\* response bodies: a header with any length field and what follows it,
\* cut off after any number of bytes
DecoderBodies ==
  UNION {{SubSeq(whole, 1, n) : n \in 1..(IF Len(whole) < MaxBodyLen THEN Len(whole) ELSE MaxBodyLen)} :
           whole \in {<<type, 0, 0, 0>> \o field \o tail :
                        type \in StreamTypes, field \in LengthFields, tail \in BodyTails}}

\* status 200 and an accepted content type: the loop is entered with the body
DecoderInit ==
  /\ SchedInit
  /\ \E body \in DecoderBodies :
       /\ callIn = [op |-> "getContainerLogs", status |-> 200, contentType |-> "undefined",
                    frames |-> <<>>, body |-> body]
       /\ callOut = [pc |-> "decoding", error |-> "none", framesRead |-> 0,
                     leftBytes |-> body, result |-> <<>>,
                     lastAppendedStreamType |-> -1, messageHasBody |-> FALSE]
  /\ transport = [requests |-> 1, state |-> "responded"]

DecoderNext == DecodeFrame \/ DecodeReturns

DecoderSpec == DecoderInit /\ [][DecoderNext]_vars

\* ------------------------------------------------------------ properties
AllTasks == UNION {{<<k, i>> : i \in 1..Len(tasks[k])} : k \in Kinds}

TaskOf(j) == tasks[j[1]][j[2]]

IdOf(j) == ContainerId(j[1], j[2])

InRunningSet(id) == \E n \in 1..Len(runningContainerIds) : runningContainerIds[n] = id

AbortTargets(reqs, id) == \E n \in 1..Len(reqs) : reqs[n].id = id

\* runBuild of task j has raised an error to its caller
Raised(j) == TaskOf(j).pc = "done" /\ TaskOf(j).result.type # "none"

\* C1: whenever createContainer succeeded and runBuild raises an error, a
\* deleteContainer request for that container id has been issued before
C1_NeverLeakOnFailure ==
  \A j \in AllTasks :
    (Raised(j) /\ TaskOf(j).created)
      => (TaskOf(j).delReqs # <<>> \/ AbortTargets(abortReqs, IdOf(j)))

\* C2: once a runBuild whose container exited non-zero has finished, the
\* container id is absent from the running set
C2_FailedBuildLeavesRunningSet ==
  \A j \in AllTasks :
    (TaskOf(j).pc = "done" /\ TaskOf(j).exit > 0) => ~InRunningSet(IdOf(j))

\* C3: the deleteContainer request that runBuild issues after a non-zero exit
\* has the force flag set
C3_FailedBuildDeleteIsForced ==
  \A j \in AllTasks :
    (TaskOf(j).exit > 0 /\ TaskOf(j).delReqs # <<>>)
      => \A n \in 1..Len(TaskOf(j).delReqs) : TaskOf(j).delReqs[n].force

\* C4: after exit code 0 runBuild issues exactly one deleteContainer for the id,
\* with force=false and ignore-missing=false (abortAll never issues such a
\* request), and when that delete succeeds the id has left the running set and
\* runBuild returns without an error
C4_SuccessfulBuildDeletesNormally ==
  \A j \in AllTasks :
    TaskOf(j).exit = 0 =>
      /\ TaskOf(j).delReqs = <<[force |-> FALSE, ignore |-> FALSE]>>
      /\ \A n \in 1..Len(abortReqs) :
           abortReqs[n].id = IdOf(j) => (abortReqs[n].force \/ abortReqs[n].ignore)
      /\ TaskOf(j).pc \in {"deleting", "done"}
      /\ (TaskOf(j).pc = "done" /\ TaskOf(j).delStatus = 200)
           => (~InRunningSet(IdOf(j)) /\ TaskOf(j).result.type = "none")

C4_Witness ==
  \E j \in AllTasks :
    /\ TaskOf(j).pc = "done" /\ TaskOf(j).exit = 0 /\ TaskOf(j).delStatus = 200
    /\ runningContainerIds # <<>>

\* C5 as stated: every runBuild whose container exited with non-zero code c
\* raises an error that embeds c, and the log tail when the fetch gave text
C5_ExitErrorAlways ==
  \A j \in AllTasks :
    (TaskOf(j).pc = "done" /\ TaskOf(j).exit > 0) =>
      /\ TaskOf(j).result.type = "exit"
      /\ TaskOf(j).result.code = TaskOf(j).exit
      /\ (TaskOf(j).fetched = "ok" /\ TaskOf(j).fetchedText # EmptyText)
           => (TaskOf(j).result.hasLogs
               /\ TaskOf(j).result.logs = LogTail(TaskOf(j).fetchedText))

\* C5 amended: when the container exited with non-zero code c and the delete
\* that follows succeeds, the error raised embeds c, and the log tail when the
\* fetch gave non-empty text; when that delete fails, its error is raised
C5_ExitErrorWhenDeleteSucceeds ==
  \A j \in AllTasks :
    (TaskOf(j).pc = "done" /\ TaskOf(j).exit > 0) =>
      IF TaskOf(j).delStatus = 200
      THEN /\ TaskOf(j).result.type = "exit"
           /\ TaskOf(j).result.code = TaskOf(j).exit
           /\ (TaskOf(j).fetched = "ok" /\ TaskOf(j).fetchedText # EmptyText)
                => (TaskOf(j).result.hasLogs
                    /\ TaskOf(j).result.logs = LogTail(TaskOf(j).fetchedText))
           /\ (TaskOf(j).fetched # "ok" \/ TaskOf(j).fetchedText = EmptyText)
                => ~TaskOf(j).result.hasLogs
      ELSE /\ TaskOf(j).result.type = "http"
           /\ TaskOf(j).result.op = "delete"
           /\ TaskOf(j).result.status = TaskOf(j).delStatus

C5_Witness ==
  \E j \in AllTasks :
    /\ TaskOf(j).pc = "done" /\ TaskOf(j).exit > 0 /\ TaskOf(j).delStatus = 200
    /\ TaskOf(j).fetched = "ok" /\ TaskOf(j).fetchedText # EmptyText
    /\ TaskOf(j).result.hasLogs

\* the start request of task j is out, or a later request of its runBuild
FromStartOn(t) == t.pc \in {"starting", "waiting", "logs", "deleting", "deletingFailed"}

\* C6: from the moment the startContainer request is issued the container id
\* is in the running set, and an abortAll that runs from then on requests the
\* delete of that container
C6_RecordedBeforeStart ==
  [][/\ \A j \in AllTasks' : FromStartOn(TaskOf(j)') => InRunningSet(IdOf(j))'
     /\ (sigints = 0 /\ sigints' = 1)
          => \A j \in AllTasks : FromStartOn(TaskOf(j)) => AbortTargets(abortReqs', IdOf(j))
    ]_vars

C6_Witness ==
  \E j \in AllTasks :
    /\ TaskOf(j).pc = "starting"
    /\ sigints = 1
    /\ \E n \in 1..Len(abortReqs) :
         abortReqs[n].id = IdOf(j) /\ abortReqs[n].outcome = "deleted"

\* C7: abortAll with N ids in the running set issues exactly N deleteContainer
\* requests, one per id, each with force=true and ignore-missing=true, and a
\* container that no longer exists never makes it fail
C7_AbortAllDeletesEachOnce ==
  [][/\ (sigints = 0 /\ sigints' = 1) =>
          /\ Len(abortReqs') = Len(runningContainerIds)
          /\ \A n \in 1..Len(runningContainerIds) :
               /\ abortReqs'[n].id = runningContainerIds[n]
               /\ abortReqs'[n].force /\ abortReqs'[n].ignore
     /\ sigints # 0 => Len(abortReqs') = Len(abortReqs)
     /\ \A n \in 1..Len(abortReqs') :
          abortReqs'[n].outcome = "failed" => abortReqs'[n].status = 500
     /\ abortState' = "rejected"
          => \E n \in 1..Len(abortReqs') : abortReqs'[n].outcome = "failed"
    ]_vars

C7_Witness ==
  /\ abortState = "resolved"
  /\ Len(abortReqs) >= 2
  /\ \E n \in 1..Len(abortReqs) : abortReqs[n].outcome = "missing"
  /\ \E n \in 1..Len(abortReqs) : abortReqs[n].outcome = "deleted"

\* C8: abortAll has settled (resolved or rejected) only when every deletion it
\* issued has finished
C8_AbortAllWaitsForEveryDelete ==
  abortState \in {"resolved", "rejected"}
    => \A n \in 1..Len(abortReqs) : abortReqs[n].outcome # "pending"

\* C9: once the shutting-down flag is set no build task that has not yet begun
\* issues createContainer: a task whose body begins after the flag is skipped
C9_NoNewJobAfterFlag ==
  [][/\ \A j \in AllTasks' :
          (/\ TaskOf(j)'.pc = "creating"
           /\ (j \notin AllTasks \/ TaskOf(j).pc # "creating"))
            => ~shuttingDown
     /\ \A j \in AllTasks' : TaskOf(j)'.afterFlag => TaskOf(j)'.pc = "skipped"
    ]_vars

C9_Witness ==
  /\ shuttingDown
  /\ \E j \in AllTasks : TaskOf(j).pc = "skipped" /\ TaskOf(j).afterFlag
  /\ \E j \in AllTasks : TaskOf(j).pc = "waiting"

\* C10: whatever the interleaving of abortAll with the jobs in flight, every
\* error of runBuild is caught by the task's handler and every error of
\* abortAll by the interrupt handler: none escapes, the scheduler does not crash
C10_NoErrorEscapes ==
  /\ "runBuild" \notin uncaught
  /\ "abortAll" \notin uncaught
  /\ \A j \in AllTasks : Raised(j) => TaskOf(j).caught
  /\ abortState = "rejected" => "abort" \in consoleErrors
  /\ exitCode \in {-1, ExitGraceful, ExitForced} \/ uncaught = {"main"}

C10_Witness ==
  /\ abortState = "rejected"
  /\ \E j \in AllTasks :
       /\ Raised(j) /\ TaskOf(j).caught
       /\ TaskOf(j).result.status = 404
       /\ AbortTargets(abortReqs, IdOf(j))

\* ------------------------------------------------------------- scheduler
\* positions of a task between the start of runBuild and its completion
RunBuildPcs ==
  {"creating", "created", "starting", "waiting", "logs", "deleting", "deletingFailed"}

Running(k) == {i \in 1..Len(tasks[k]) : tasks[k][i].pc \in RunBuildPcs}

\* C11: within the pool of one kind no more jobs are between the start of
\* runBuild and its completion than the pool has workers: none overlap in
\* the size-1 pool of spigot, at most two run in the size-2 pool of purpur
C11_PoolSizeBound ==
  /\ Cardinality(Running("spigotmc.org/spigot")) <= 1
  /\ Cardinality(Running("purpurmc.org/purpur")) <= 2

\* both workers of the size-2 pool run a job while a third job is queued
C11_Witness ==
  /\ Cardinality(Running("purpurmc.org/purpur")) = 2
  /\ \E i \in 1..Len(tasks["purpurmc.org/purpur"]) :
       tasks["purpurmc.org/purpur"][i].pc = "idle"

\* some job has failed: its error is still held by its task, or was logged
SomeJobFailed == "build" \in consoleErrors \/ \E j \in AllTasks : Raised(j)

\* the steps of the pools and of their jobs, without the SIGINT handlers
PoolProgress ==
  \/ AllDone
  \/ \E j \in AllTasks : TaskStart(j[1], j[2]) \/ TaskFinish(j[1], j[2])
  \/ \E j \in AllTasks : EngineCreate(j[1], j[2]) \/ CreateReturns(j[1], j[2])
  \/ \E j \in AllTasks : StartResponse(j[1], j[2]) \/ WaitResponse(j[1], j[2])
  \/ \E j \in AllTasks : LogsResponse(j[1], j[2]) \/ DeleteResponse(j[1], j[2])

\* C12: a failing job does not stop the pool: as long as no interrupt has
\* occurred, after a job has failed the pools can still take a step until the
\* process exits, and it exits only by 'All done' with every to-build version
\* of every kind started and run to completion
C12_FailureDoesNotStopPool ==
  (SomeJobFailed /\ sigints = 0) =>
    /\ Alive => ENABLED PoolProgress
    /\ ~Alive => /\ mainPc = "allDone"
                 /\ \A j \in AllTasks : TaskOf(j).pc = "finished"

\* 'All done' without interrupt after a job has failed, both kinds having jobs
C12_Witness ==
  /\ mainPc = "allDone" /\ sigints = 0
  /\ "build" \in consoleErrors
  /\ \A k \in Kinds : Len(tasks[k]) >= 1
  /\ \A j \in AllTasks : TaskOf(j).pc = "finished"

\* the versions handed to the bulk check: the known versions without 'latest'
C13_Versions == SelectSeq(callIn.known, LAMBDA v : v # "latest")

C13_ToBuildIndices ==
  {i \in 1..Len(C13_Versions) : callIn.alreadyBuilt[i] \in {"false", "null"}}

\* C13: the to-build set is exactly the versions whose already-built entry
\* is false or undetermined, each once per such entry, and the skipped count
\* is the number of entries that are true; for [2.0, 1.0, 1.5] with
\* [false, true, undetermined] the to-build set is {2.0, 1.5}, one skipped
C13_ToBuildSet ==
  callOut # NoCall =>
    /\ {callOut.buildTasks[n] : n \in 1..Len(callOut.buildTasks)}
         = {C13_Versions[i] : i \in C13_ToBuildIndices}
    /\ Len(callOut.buildTasks) = Cardinality(C13_ToBuildIndices)
    /\ callOut.skipped
         = Cardinality({i \in 1..Len(C13_Versions) : callIn.alreadyBuilt[i] = "true"})
    /\ (callIn.known = <<"2.0", "1.0", "1.5">>
          /\ callIn.alreadyBuilt = <<"false", "true", "null">>)
         => (callOut.buildTasks = <<"2.0", "1.5">> /\ callOut.skipped = 1)

\* the example of the claim has been run
C13_Witness ==
  /\ callOut # NoCall
  /\ callIn.known = <<"2.0", "1.0", "1.5">>
  /\ callIn.alreadyBuilt = <<"false", "true", "null">>
  /\ callOut.buildTasks = <<"2.0", "1.5">>

\* runBuild invocations of kind k for version v
RunsFor(k, v) ==
  Cardinality({i \in 1..Len(tasks[k]) : tasks[k][i].version = v /\ tasks[k][i].runs >= 1})

C15_AbortAllOnce ==
  /\ sigints = 0 => (abortCalls = 0 /\ ~shuttingDown)
  /\ sigints >= 1 => (abortCalls = 1 /\ shuttingDown)

\* a second interrupt has been delivered and abortAll has run once
C15_Witness == sigints = 2 /\ abortCalls = 1 /\ shuttingDown

\* a delete request of abortAll is still unanswered
AbortInProgress == \E n \in 1..Len(abortReqs) : abortReqs[n].outcome = "pending"

\* C16: a second interrupt delivered while the graceful abort is still in
\* progress terminates the process at once with exit code 100, without
\* waiting for outstanding deletes: after two interrupts the exit code is 100,
\* and while deletes are outstanding the second interrupt is not held back
C16_ForcedExitCode ==
  /\ sigints = 2 => exitCode = 100
  /\ (sigints = 1 /\ Alive /\ AbortInProgress) => ENABLED SecondSigint

\* the process has exited with code 100 while a delete was outstanding
C16_Witness == sigints = 2 /\ exitCode = 100 /\ AbortInProgress

\* ----------------------------------------------------------- protocol client
\* the engine has answered the request of the call under study
Responded == transport.state = "responded"

\* getContainerLogs has got status 200 and an accepted content type
LogsDecoded ==
  /\ callIn.op = "getContainerLogs" /\ callIn.status = 200
  /\ callIn.contentType \in {"undefined", "application/octet-stream"}
  /\ Responded

\* the payloads in order, with the marker of its stream before each frame
\* whose stream type differs from that of the frame before it
RECURSIVE Demultiplexed(_, _)
Demultiplexed(frames, previousType) ==
  IF frames = <<>> THEN <<>>
  ELSE LET frame == Head(frames)
       IN (IF frame.type = previousType THEN <<>>
           ELSE IF frame.type = 1 THEN <<10, 91, 115, 116, 100, 111, 117, 116, 93, 32>>
           ELSE <<10, 91, 115, 116, 100, 101, 114, 114, 93, 32>>)
            \o frame.payload \o Demultiplexed(Tail(frames), frame.type)

\* [1,'abcde'] [2,'xyz'] [1,'hi']
C17_ExampleFrames ==
  <<[type |-> 1, payload |-> <<97, 98, 99, 100, 101>>],
    [type |-> 2, payload |-> <<120, 121, 122>>],
    [type |-> 1, payload |-> <<104, 105>>]>>

\* '\n[stdout] abcde\n[stderr] xyz\n[stdout] hi'
C17_ExampleText ==
  <<10, 91, 115, 116, 100, 111, 117, 116, 93, 32, 97, 98, 99, 100, 101,
    10, 91, 115, 116, 100, 101, 114, 114, 93, 32, 120, 121, 122,
    10, 91, 115, 116, 100, 111, 117, 116, 93, 32, 104, 105>>

\* C17: for a body of well-formed frames with stream types 1 and 2 the decode
\* does not fail, and the text it returns is the in-order concatenation of
\* the payloads with a stdout or stderr marker exactly before each frame
\* whose stream type differs from the previous frame's, the first included;
\* the three example frames give '\n[stdout] abcde\n[stderr] xyz\n[stdout] hi'
C17_LogDemultiplexing ==
  (LogsDecoded /\ \A n \in 1..Len(callIn.frames) : callIn.frames[n].type \in {1, 2}) =>
    /\ callOut.pc # "thrown"
    /\ callOut.pc = "returned" =>
         /\ callOut.result = Demultiplexed(callIn.frames, 0)
         /\ callIn.frames = C17_ExampleFrames => callOut.result = C17_ExampleText

\* the example body has been decoded to the example text
C17_Witness ==
  /\ LogsDecoded /\ callIn.frames = C17_ExampleFrames
  /\ callOut.pc = "returned" /\ callOut.result = C17_ExampleText

\* the frames before the first one whose stream type is neither 1 nor 2
RECURSIVE KnownPrefix(_)
KnownPrefix(frames) ==
  IF frames = <<>> \/ Head(frames).type \notin {1, 2} THEN <<>>
  ELSE <<Head(frames)>> \o KnownPrefix(Tail(frames))

\* C18: for a body with a frame whose stream type is neither 1 nor 2, at any
\* position, the decode returns no text: it is still reading the frames
\* before that frame, or it has failed on that frame with the stream-type
\* error, and the text built holds the frames before it and nothing of it
C18_UnknownStreamTypeFails ==
  (LogsDecoded /\ \E n \in 1..Len(callIn.frames) : callIn.frames[n].type \notin {1, 2}) =>
    /\ callOut.pc # "returned"
    /\ callOut.pc = "decoding" =>
         (callOut.framesRead <= Len(KnownPrefix(callIn.frames)) /\ ENABLED DecodeFrame)
    /\ callOut.pc = "thrown" =>
         /\ callOut.error = "streamType"
         /\ callOut.framesRead = Len(KnownPrefix(callIn.frames)) + 1
         /\ callOut.result = Demultiplexed(KnownPrefix(callIn.frames), 0)

\* the decode has failed on an unknown stream type in second position
C18_Witness ==
  /\ LogsDecoded /\ Len(callIn.frames) >= 2
  /\ callIn.frames[1].type = 1 /\ callIn.frames[2].type = 3
  /\ callOut.pc = "thrown" /\ callOut.error = "streamType"

\* C19: whenever the declared Content-Type of the response is anything other
\* than application/octet-stream, getContainerLogs fails and has decoded no
\* frame of the body
C19_ContentTypeRejected ==
  (/\ callIn.op = "getContainerLogs"
   /\ callIn.contentType \notin {"undefined", "application/octet-stream"}
   /\ Responded) =>
    (callOut.pc = "thrown" /\ callOut.error \in {"status", "contentType"}
       /\ (callOut.error = "contentType" => callOut.framesRead = 0))

\* status 200 with Content-Type text/plain and a non-empty body has failed
C19_Witness ==
  /\ callIn.op = "getContainerLogs" /\ callIn.status = 200
  /\ callIn.contentType = "text/plain" /\ callIn.frames # <<>>
  /\ Responded /\ callOut.pc = "thrown" /\ callOut.error = "contentType"

\* the one status each operation accepts
C20_Accepted ==
  [op \in ApiOps |->
     IF op = "createContainer" THEN 201 ELSE IF op = "startContainer" THEN 204 ELSE 200]

\* C20: every operation accepts exactly one status: 201 for createContainer,
\* 204 for startContainer, 200 for the eight others; with any other status
\* the operation fails on the status and returns no result, and with that
\* status it does not fail on the status
C20_OneStatusPerOperation ==
  (callIn.op \in ApiOps /\ Responded) =>
    /\ callIn.status # C20_Accepted[callIn.op]
         => (callOut.pc = "thrown" /\ callOut.error = "status")
    /\ callIn.status = C20_Accepted[callIn.op] => callOut.error # "status"

\* startContainer has got 200, the status eight other operations accept, and
\* has failed on it
C20_Witness ==
  /\ callIn.op = "startContainer" /\ callIn.status = 200
  /\ Responded /\ callOut.pc = "thrown" /\ callOut.error = "status"

\* C21: every error an operation raises for a contract violation (unexpected
\* status, malformed or missing field, wrong content type) carries the raw
\* response body in its message
C21_ErrorCarriesBody ==
  (callIn.op \in ApiOps /\ Responded /\ callOut.pc = "thrown")
    => callOut.messageHasBody

LogFetchFailed(j) ==
  /\ TaskOf(j).pc = "done" /\ TaskOf(j).exit > 0
  /\ TaskOf(j).fetched \in {"gone", "failed"}

\* C23 as stated: on a non-zero exit, whatever error getContainerLogs raises,
\* runBuild has still issued the container delete and raises the exit-code
\* error; the log-fetch error is not reported when the container is absent
\* and is logged otherwise
C23_LogFailureKeepsExitError ==
  \A j \in AllTasks :
    LogFetchFailed(j) =>
      /\ TaskOf(j).delReqs # <<>>
      /\ TaskOf(j).result.type = "exit" /\ TaskOf(j).result.code = TaskOf(j).exit
      /\ TaskOf(j).logErrLogged = (TaskOf(j).fetched = "failed")

\* C23 amended: on a non-zero exit, whatever error getContainerLogs raises,
\* runBuild has still issued the forced-by-ignore delete of the container; the
\* log-fetch error is never the error raised, it is not reported when the
\* container is absent and is logged otherwise; the exit-code error is raised
\* when the delete succeeds, the error of the delete when it fails
C23_LogFailureNeverEscalates ==
  \A j \in AllTasks :
    LogFetchFailed(j) =>
      /\ TaskOf(j).delReqs = <<FailedDeleteFlags>>
      /\ TaskOf(j).logErrLogged = (TaskOf(j).fetched = "failed")
      /\ TaskOf(j).result.op # "logs"
      /\ IF TaskOf(j).delStatus = 200
         THEN /\ TaskOf(j).result.type = "exit"
              /\ TaskOf(j).result.code = TaskOf(j).exit
              /\ ~TaskOf(j).result.hasLogs
         ELSE /\ TaskOf(j).result.type = "http" /\ TaskOf(j).result.op = "delete"

\* the log fetch found the container gone, nothing was logged, the delete
\* succeeded and the exit-code error was raised
C23_Witness ==
  \E j \in AllTasks :
    /\ LogFetchFailed(j) /\ TaskOf(j).fetched = "gone" /\ ~TaskOf(j).logErrLogged
    /\ TaskOf(j).delStatus = 200 /\ TaskOf(j).result.type = "exit"

\* C24: the log text kept for the error of a failed build is the last 250
\* lines of the log: of a log of L lines the final min(L, 250) lines in their
\* original order; and a log is captured only when the exit code is non-zero
C24_LastLines ==
  (callIn.op = "captureLogs" /\ callOut # NoCall) =>
    LET L == Len(callIn.text)
        n == IF L <= 250 THEN L ELSE 250
    IN /\ callOut.fetched = (callIn.exitCode # 0)
       /\ callOut.fetched =>
            /\ Len(callOut.containerLogs) = n
            /\ \A i \in 1..n : callOut.containerLogs[i] = callIn.text[L - n + i]

\* a log of 252 lines has been cut to its lines 3..252
C24_Witness ==
  /\ callIn.op = "captureLogs" /\ callOut # NoCall /\ callOut.fetched
  /\ Len(callIn.text) = 252
  /\ Len(callOut.containerLogs) = 250
  /\ callOut.containerLogs[1] = 3 /\ callOut.containerLogs[250] = 252

\* C25: the five grouped kinds run under a group bound of 1: at no time are
\* two of them between the call and the return of their
\* buildAllVersionsOfSomething, so never do two of them have a job in flight;
\* spigot and purpur are not held back by the group or by each other
C25_PoolOfPools ==
  callIn.op = "pools" =>
    /\ Cardinality({k \in {"papermc.io/paper", "papermc.io/velocity", "papermc.io/waterfall",
                           "papermc.io/folia", "papermc.io/travertine"} :
                      callOut.phase[k] \in {"preparing", "building"}
                        \/ callOut.inFlight[k] > 0}) <= 1
    /\ \A k \in {"spigotmc.org/spigot", "purpurmc.org/purpur"} :
         /\ callOut.phase[k] # "idle"
         /\ (callOut.exit < 0 /\ callOut.phase[k] = "building" /\ callOut.left[k] > 0
               /\ callOut.inFlight[k] = 0) => ENABLED JobStart(k)

\* spigot, purpur and one grouped kind have jobs in flight at the same time,
\* the size-2 pools being full
C25_Witness ==
  /\ callIn.op = "pools"
  /\ callOut.inFlight["spigotmc.org/spigot"] = 1
  /\ callOut.inFlight["purpurmc.org/purpur"] = 2
  /\ callOut.inFlight["papermc.io/velocity"] = 2
  /\ callOut.phase["papermc.io/waterfall"] = "idle"

\* the startup prune and the image build have each completed exactly once
StartupDone == startup = [prune |-> 1, buildImage |-> 1]

\* C26: the startup prune and the runner-image build each happen once and no
\* more, and both have completed before any kind is prepared, before any
\* build task exists and before any container is created; while either of
\* them is outstanding no job runs
C26_StartupBeforeJobs ==
  /\ startup.prune <= 1 /\ startup.buildImage <= 1
  /\ \A k \in Kinds : (kindPc[k] # "idle" \/ tasks[k] # <<>>) => StartupDone
  /\ \A c \in DOMAIN containers : containers[c] # "none" => StartupDone
  /\ mainPc \in {"prune", "buildImage"} =>
       (~StartupDone /\ \A k \in Kinds : tasks[k] = <<>>)

\* a job has issued createContainer after the one prune and the one build
C26_Witness ==
  /\ StartupDone /\ mainPc = "pools"
  /\ \E j \in AllTasks : TaskOf(j).pc = "creating"

\* ------------------------------------------------------------ builder mode
\* the arguments the checks of lines 128-153 are there to refuse
InvalidBuilderArguments ==
  \/ callIn.builder.type # "string" \/ callIn.builder.text = ""
  \/ callIn.builderArg.type \notin {"undefined", "array"}
  \/ \E i, h \in 1..Len(callIn.builderArg.items) :
       i # h /\ ArgKey(callIn.builderArg.items[i]) = ArgKey(callIn.builderArg.items[h])

\* C27: in builder mode the process ends with a non-zero code when the
\* arguments are invalid (a repeated key included) or the build fails, and
\* with code 0 when the build succeeds
C27_BuilderExitCodes ==
  (callIn.op = "builder" /\ callOut.pc = "exited") =>
    /\ InvalidBuilderArguments => callOut.exit # 0
    /\ callOut.build = "rejected" => callOut.exit # 0
    /\ callOut.build = "resolved" => callOut.exit = 0

\* ------------------------------------------------------- create and delete
\* C28: for every container specification, once createContainer has returned
\* an id and deleteContainer of that id has returned, the engine holds no
\* container with that id; a repeated delete with ignore-missing returns as
\* well and leaves every container of the engine as it was
C28_CleanupIdempotent ==
  callIn.op = "cleanup" =>
    /\ callOut.pc \in {"deleted", "repeated", "repeatThrown"} =>
         ~Exists(callOut.engine[callOut.id])
    /\ (callOut.pc \in {"repeated", "repeatThrown"} /\ callOut.ignore) =>
         (callOut.pc = "repeated" /\ callOut.engine = callOut.before)

\* a running container was deleted with force, and the cleanup was repeated
\* with force and ignore-missing next to another container that still runs
C28_Witness ==
  /\ callIn.op = "cleanup" /\ callOut.pc = "repeated"
  /\ callOut.force /\ callOut.ignore
  /\ \E c \in EngineIds : c # callOut.id /\ callOut.engine[c] = "running"

\* ------------------------------------------------------ already-built check
\* the bulk check of the given strategy has returned
BulkReturned(strategy) ==
  callIn.op = "bulk" /\ callIn.strategy = strategy /\ callOut # NoCall /\ ~callOut.thrown

\* the output directory holds the file the spigot build writes for version:
\* a regular file named '<version string> [<version>].jar'
HoldsSpigotFile(dir, version) ==
  \E e \in dir :
    /\ e.isFile /\ Len(e.path) = 1
    /\ \E n \in 0..Len(e.path[1]) :
         e.path[1] = SubSeq(e.path[1], 1, n) \o " [" \o version \o "].jar"

\* C29: the spigot bulk check answers true for a version exactly when the
\* output directory holds the file built for that version and false
\* otherwise; with the file 'Build 42 [1.20.4].jar' it answers true for
\* 1.20.4, and false for 1.20.5; 'latest' is always answered with null
C29_SpigotBulkCheck ==
  BulkReturned("spigotmc.org/spigot") =>
    \A i \in 1..Len(callIn.args) :
      LET version == callIn.args[i]["version"] IN
        /\ version = "latest" => callOut.result[i] = "null"
        /\ version # "latest" =>
             callOut.result[i] = TriState(HoldsSpigotFile(callIn.dir, version))
        /\ [path |-> <<"Build 42 [1.20.4].jar">>, isFile |-> TRUE] \in callIn.dir =>
             /\ version = "1.20.4" => callOut.result[i] = "true"
             /\ version = "1.20.5" => callOut.result[i] = "false"

\* next to 'Build 42 [1.20.4].jar' the directory holds a '.jar.part' file
\* and a directory named for 1.20.5; the answers are true, false and null
C29_Witness ==
  /\ BulkReturned("spigotmc.org/spigot")
  /\ [path |-> <<"Build 42 [1.20.4].jar">>, isFile |-> TRUE] \in callIn.dir
  /\ [path |-> <<"Build 42 [1.20.5].jar.part">>, isFile |-> TRUE] \in callIn.dir
  /\ [path |-> <<"Build 7 [1.20.5].jar">>, isFile |-> FALSE] \in callIn.dir
  /\ callIn.args = <<[key \in {"version"} |-> "1.20.4"], [key \in {"version"} |-> "1.20.5"],
                     [key \in {"version"} |-> "latest"]>>
  /\ callOut.result = <<"true", "false", "null">>

\* C30: for every strategy the bulk check returns as many answers as it was
\* given argument maps, the i-th answer is the answer for the i-th map, and
\* the output directory after the call is the one before it
C30_BulkParallelNoWrites ==
  (callIn.op = "bulk" /\ callOut # NoCall) =>
    /\ callOut.dir = callIn.dir
    /\ ~callOut.thrown =>
         /\ Len(callOut.result) = Len(callIn.args)
         /\ \A i \in 1..Len(callIn.args) :
              callOut.result[i] = CheckOne(callIn.strategy, callIn.dir, callIn.args[i])

\* a strategy that answers in a loop was given three maps whose answers
\* differ, over a directory that holds entries
C30_Witness ==
  /\ BulkReturned("pufferfish.host")
  /\ callIn.args = <<[key \in {"version"} |-> "1.20.4-42"], [key \in {"version"} |-> "1.20.5"],
                     [key \in {"version"} |-> "1.20.4"]>>
  /\ callOut.result = <<"true", "false", "true">>
  /\ callOut.dir = callIn.dir /\ callIn.dir # {}

\* ------------------------------------------------------------ job lifecycle
\* abortAll has asked the engine to remove container id
ForceRemoved(id) == containers[id] = "removed" /\ AbortTargets(abortReqs, id)

\* the engine state of the container of job j agrees with the call the job
\* is at: nothing before create has answered, created until start has
\* answered 204, running until wait has answered, exited until the delete
LifecycleOf(j) ==
  LET t == TaskOf(j)
      id == IdOf(j)
  IN  /\ t.pc \in {"idle", "skipped", "creating"} => containers[id] = "none"
      /\ t.pc = "created" => containers[id] = "created"
      /\ t.pc = "starting" => (containers[id] = "created" \/ ForceRemoved(id))
      /\ t.pc = "waiting" => (containers[id] = "running" \/ ForceRemoved(id))
      /\ t.pc \in {"logs", "deleting", "deletingFailed"} =>
           (containers[id] = "exited" \/ ForceRemoved(id))
      /\ t.pc \in {"starting", "waiting", "logs", "deleting", "deletingFailed"} => t.created
      /\ t.pc \in {"logs", "deleting", "deletingFailed"} => t.exit >= 0
      /\ (t.pc = "logs" \/ t.fetched # "none") => t.exit > 0
      /\ t.delReqs # <<>> =>
           /\ t.exit >= 0 /\ Len(t.delReqs) = 1
           /\ t.pc \in {"deleting", "deletingFailed", "done"}

\* the steps of one container in the engine
ContainerStep(id) ==
  containers'[id] # containers[id] =>
    \/ containers[id] = "none" /\ containers'[id] = "created"
    \/ containers[id] = "created" /\ containers'[id] = "running"
    \/ containers[id] = "running" /\ containers'[id] = "exited"
    \/ containers[id] = "exited" /\ containers'[id] = "removed"
    \/ containers'[id] = "removed" /\ AbortTargets(abortReqs, id)

\* C31: the engine calls of one job come in the order create, start, wait,
\* log fetch (after a non-zero exit only), delete: start is requested after
\* create has returned the id, wait after start has answered 204, the job's
\* delete after wait has answered; each container goes from created to
\* running to exited to removed unless abortAll force-removes it
C31_LifecycleOrder ==
  /\ [](\A j \in AllTasks : LifecycleOf(j))
  /\ [][\A id \in ContainerIds : ContainerStep(id)]_vars

\* a failed job is at its delete, past create, start, wait and the log
\* fetch, with its container exited and no abort under way
C31_Witness ==
  \E j \in AllTasks :
    /\ TaskOf(j).pc = "deletingFailed" /\ TaskOf(j).fetched = "ok"
    /\ containers[IdOf(j)] = "exited" /\ sigints = 0

\* ------------------------------------------------------ container command
\* the entrypoint of the mode
Entrypoint(production) ==
  IF production THEN <<Chars("node"), Chars("--enable-source-maps"), Chars("dist/main.js")>>
  ELSE <<Chars("node"), Chars("src/main.ts")>>

\* the requested arguments as a map from key to value
RequestedMap(entries) ==
  [key \in {entries[i].key : i \in 1..Len(entries)} |->
     (CHOOSE e \in {entries[i] : i \in 1..Len(entries)} : e.key = key).value]

\* C32: in production and in development mode the command is the mode's
\* entrypoint, then 'builder', the kind name and a key=value element for each
\* argument, and the container runs the requested kind with the requested
\* arguments
C32_CommandRunsRequested ==
  (callIn.op = "command" /\ callOut # NoCall) =>
    LET entry == Entrypoint(callIn.production)
        rest == SubSeq(callOut.command, Len(entry) + 1, Len(callOut.command))
    IN  /\ SubSeq(callOut.command, 1, Len(entry)) = entry
        /\ Len(rest) >= 2 /\ rest[1] = Chars("builder") /\ rest[2] = Chars(callIn.builderName)
        /\ \A i \in 1..Len(callIn.builderArgs) :
             \E n \in 3..Len(rest) : rest[n] = KeyValue(callIn.builderArgs[i])
        /\ callOut.pc = "ran" =>
             /\ callOut.ran.mode = "builder"
             /\ callOut.ran.builder = Chars(callIn.builderName)
             /\ callOut.ran.ok
             /\ callOut.ran.map = RequestedMap(callIn.builderArgs)

\* ------------------------------------------------------------ graceful exit
\* C33: after the first interrupt, once abortAll has settled the process has
\* exited with code 0, whether abortAll resolved or rejected, and a rejection
\* has been logged by then; no error of abortAll is left unhandled
C33_ExitAfterAbortSettles ==
  abortState \in {"resolved", "rejected"} =>
    /\ sigints >= 1
    /\ exitCode = ExitGraceful
    /\ abortState = "rejected" => "abort" \in consoleErrors
    /\ abortState = "resolved" => "abort" \notin consoleErrors
    /\ "abortAll" \notin uncaught

\* a deletion of abortAll was answered with an unexpected status: abortAll
\* rejected, the rejection was logged and the process exited with code 0
C33_Witness ==
  /\ abortState = "rejected" /\ exitCode = ExitGraceful /\ "abort" \in consoleErrors
  /\ \E n \in 1..Len(abortReqs) : abortReqs[n].outcome = "failed"

\* -------------------------------------------------------------- termination
\* every job of every kind has finished
EveryJobFinished ==
  \A k \in Kinds :
    /\ kindPc[k] = "running"
    /\ \A i \in 1..Len(tasks[k]) : tasks[k][i].pc = "finished"

\* C34: when every engine call returns in the end and no interrupt occurs,
\* the scheduler reports 'All done' and exits with code 0 in the end, and
\* only after every job of every kind has finished, failed jobs included
C34_AllDoneEventually ==
  /\ <>(mainPc = "allDone" /\ exitCode = ExitGraceful)
  /\ [](mainPc = "allDone" => EveryJobFinished)

\* ------------------------------------------------------- kinds, independent
\* kind k is the next task of the outer pool of the grouped kinds
NextOfGroup(k) ==
  /\ k \in Grouped /\ callOut.phase[k] = "idle"
  /\ \A n \in 1..Len(GroupedKinds) :
       GroupedKinds[n] = k => \A m \in 1..(n - 1) : callOut.phase[GroupedKinds[m]] # "idle"
  /\ \A o \in Grouped : callOut.phase[o] \notin {"preparing", "building"}

\* C35: when the preparation of one kind has failed, every other kind goes
\* on: a kind with versions left to build and a free worker can start its
\* next job, and the next kind of the bounded group can be started
C35_PreparationFailureIsLocal ==
  callIn.op = "pools" =>
    \A k \in AllKinds : callOut.phase[k] = "thrown" =>
      \A o \in AllKinds \ {k} :
        /\ (/\ callOut.phase[o] = "building" /\ callOut.left[o] > 0
            /\ callOut.inFlight[o] < WorkerCount(o)) => ENABLED JobStart(o)
        /\ NextOfGroup(o) => ENABLED GroupStart(o)

\* ---------------------------------------------------------- ownership label
\* C36: every container runBuild creates carries the label
\* 'dev.sprax.minecraft-artifact-builder', the label the startup prune filters
\* on, so the prune selects every stopped container a previous run of the
\* program has left, and none that lacks the label
C36_PruneSelectsOwnContainers ==
  /\ "dev.sprax.minecraft-artifact-builder" \in DOMAIN ContainerLabels
  /\ (callIn.op = "prune" /\ callOut.pc = "pruned") =>
       \A c \in EngineIds :
         /\ (/\ callOut.before[c].origin = "own"
             /\ callOut.before[c].state \in {"created", "exited"}) => c \in callOut.pruned
         /\ c \in callOut.pruned =>
              "dev.sprax.minecraft-artifact-builder" \in DOMAIN callOut.before[c].labels

\* the prune removed an exited container of a previous run and left a
\* stopped container of another program in place
C36_Witness ==
  /\ callIn.op = "prune" /\ callOut.pc = "pruned"
  /\ \E c \in callOut.pruned :
       callOut.before[c].origin = "own" /\ callOut.before[c].state = "exited"
  /\ \E c \in EngineIds \ callOut.pruned :
       callOut.before[c].origin = "foreign" /\ callOut.before[c].state = "exited"

\* ------------------------------------------------------ running-set coverage
\* C37: whenever abortAll may take its snapshot, every container the engine
\* has created for this process and not yet removed has its id in the
\* running set, so that after a graceful abort that resolved no container is
\* left, a container whose create request was in flight included
C37_RunningSetCoversContainers ==
  /\ sigints = 0 =>
       \A id \in ContainerIds : containers[id] \notin {"none", "removed"} => InRunningSet(id)
  /\ abortState = "resolved" =>
       \A id \in ContainerIds : containers[id] \in {"none", "removed"}

\* ------------------------------------------------------ running-set removal
\* the running set without the entries equal to id
Without(ids, id) == SelectSeq(ids, LAMBDA entry : entry # id)

\* C38: under every interleaving of the jobs of all pools and of the
\* interrupt handler, the running set changes only by the push of one id or
\* by a job that returns successfully and removes exactly one entry, the id
\* of its own container; the entries of other jobs stay, in their order
C38_RemovesOwnIdOnly ==
  [][runningContainerIds' # runningContainerIds =>
       \/ \E id \in ContainerIds : runningContainerIds' = Append(runningContainerIds, id)
       \/ \E j \in AllTasks :
            /\ TaskOf(j).pc = "deleting" /\ TaskOf(j)'.pc = "done"
            /\ TaskOf(j)'.result.type = "none"
            /\ InRunningSet(IdOf(j))
            /\ Len(runningContainerIds') = Len(runningContainerIds) - 1
            /\ runningContainerIds' = Without(runningContainerIds, IdOf(j))
    ]_vars

\* a job has returned successfully and its id has left the running set,
\* while the id of a job that is still waiting for its container is in it
C38_Witness ==
  \E j, o \in AllTasks :
    /\ j # o
    /\ TaskOf(j).pc = "done" /\ TaskOf(j).exit = 0 /\ TaskOf(j).delStatus = 200
    /\ ~InRunningSet(IdOf(j))
    /\ TaskOf(o).pc = "waiting" /\ InRunningSet(IdOf(o))

\* ------------------------------------------------------ decoder termination
\* C39: every turn of the decoding loop leaves strictly fewer bytes than it
\* found, for every value of the length field, negative ones included, and
\* for bodies that end inside a header or a payload; the loop therefore ends
C39_DecoderShrinks ==
  [][(/\ callIn.op = "getContainerLogs" /\ callOut.pc = "decoding"
      /\ callOut'.framesRead = callOut.framesRead + 1)
       => Len(callOut'.leftBytes) < Len(callOut.leftBytes)]_vars

\* ------------------------------------------------- builder mode workspace
\* C40: in builder mode, when the process has ended after a build that
\* succeeded or failed, the temporary workspace made for it has been removed
C40_WorkspaceRemoved ==
  (callIn.op = "builder" /\ callOut.pc = "exited" /\ callOut.build \in {"resolved", "rejected"})
    => callOut.workspace = "removed"

====
